---------------------------- MODULE Spec2Model ----------------------------
(***************************************************************************)
(* Character+ : reminder scheduling (useNotifications), state persistence  *)
(* (utils/storage) and the App component's bootstrap / save / notification *)
(* effects.                                                                *)
(*                                                                         *)
(* The repository carries two revisions of the useNotifications hook:      *)
(* src/src/hooks/useNotifications.ts (whole-hour interval) and             *)
(* src/unnamed/part_000 (minute step with de-duplication).  Both are       *)
(* modelled; the variable "version" says which one the build contains.     *)
(***************************************************************************)
EXTENDS Integers, Sequences, FiniteSets, TLC

(***************************************************************************)
(* Bounds of the model                                                     *)
(***************************************************************************)
\* largest timesPerDay handed to one setupNotifications call
MaxTimesPerDay == 9
\* number of state mutations (setState calls from handlers) per run
MaxNow == 1
\* setupNotifications invocations that may be awaiting at the same time
MaxInFlight == 2
\* how far outside 0..23 the hours handed to one setupNotifications call go
HourSlack == 1
\* number of state mutations per run of one screen
MaxEdits == 2
\* number of tasks one run creates with the task wizard
MaxTasks == 1

(***************************************************************************)
(* Program constants                                                       *)
(***************************************************************************)
\* Math.min(8, settings.timesPerDay)
MaxSlots == 8
\* Math.min(23, ...) : last hour of the day
LastHour == 23
\* Math.min(59, offset % 60)
LastMinute == 59

Max(a, b) == IF a >= b THEN a ELSE b
Min(a, b) == IF a <= b THEN a ELSE b

\* clamp(value, min, max)
clamp(value, lo, hi) == Max(lo, Min(hi, value))

Hours == 0..LastHour

(***************************************************************************)
(* useNotifications, revision src/unnamed/part_000                         *)
(***************************************************************************)
\* Math.max(0, Math.min(23, Math.floor(value))) on integers
normalizeHour(value) == Max(0, Min(LastHour, value))

slots(settings) == Max(1, Min(MaxSlots, settings.timesPerDay))

startHour(settings) == normalizeHour(settings.startHour)

endHour(settings) == normalizeHour(settings.endHour)

totalMinutes(settings) == (endHour(settings) - startHour(settings)) * 60

stepMinutes(settings) == Max(1, totalMinutes(settings) \div slots(settings))

offset(settings, i) == i * stepMinutes(settings)

hour(settings, i) == Min(LastHour, startHour(settings) + (offset(settings, i) \div 60))

minute(settings, i) == Min(LastMinute, offset(settings, i) % 60)

\* `${hour}:${minute}`
triggerKey(settings, i) == <<hour(settings, i), minute(settings, i)>>

\* the window test that ends the call before the loop
windowEmpty(settings) == endHour(settings) <= startHour(settings)

\* the loop running one iteration too many, i <= slots
loopBound_inclusive(settings) == slots(settings) + 1

\* the loop's exit test, i < slots
loopBound(settings) == slots(settings)

\* the iteration the loop awaits next: the first i >= from whose key is unused
RECURSIVE nextIteration(_, _, _)
nextIteration(settings, from, usedTimes) ==
    IF from >= loopBound(settings) THEN from
    ELSE IF triggerKey(settings, from) \in usedTimes
         THEN nextIteration(settings, from + 1, usedTimes)
         ELSE from

(***************************************************************************)
(* useNotifications, revision src/src/hooks/useNotifications.ts            *)
(***************************************************************************)
hooks_slots(settings) == Max(1, settings.timesPerDay)

hooks_interval(settings) ==
    Max(1, (settings.endHour - settings.startHour) \div hooks_slots(settings))

hooks_hour(settings, i) == Min(LastHour, settings.startHour + i * hooks_interval(settings))

\* trigger minute is the literal 0
hooks_minute(settings, i) == 0


(***************************************************************************)
(* State                                                                   *)
(***************************************************************************)
VARIABLES
    version,        \* which revision of hooks/useNotifications the build has
    templates,      \* constants/templates: GOAL_TEMPLATES, by category id
    permission,     \* notification collaborator: permission status
    scheduled,      \* notification collaborator: scheduled notifications, in order
    calls,          \* setupNotifications invocations in flight, by invocation number
    started,        \* number of setupNotifications invocations started
    state,          \* App: useState<AppState>(defaultState)
    loaded,         \* App: useState(false)
    bootPc,         \* App: position of bootstrap() / loadState()
    storage,        \* storage collaborator: raw value under KEY
    pendingWrites,  \* storage collaborator: setItem requests not yet completed
    saved,          \* argument of the latest saveState call
    loadCalls,      \* number of loadState invocations
    saveCalls,      \* number of saveState invocations
    now,            \* Date.now(), advanced by every handler
    today,          \* todayKey(): the calendar day of the current render
    ui              \* App: the screen's own useState values and refs

vars == <<version, templates, permission, scheduled, calls, started, state, loaded, bootPc,
          storage, pendingWrites, saved, loadCalls, saveCalls, now, today, ui>>

notifVars == <<version, templates, permission, scheduled, calls, started>>
appVars == <<state, loaded, bootPc, storage, pendingWrites, saved, loadCalls, saveCalls, now,
             today, ui>>

Versions == {"hooks", "part_000"}

\* granted / iOS provisional count as granted; undetermined does not
Permissions == {"granted", "provisional", "undetermined"}

GoalCategory == {"calmness", "discipline", "kindness", "focus", "punctuality"}

createGoal(category, t) ==
    [id |-> <<category, t>>, category |-> category,
     customAction |-> "description", isActive |-> TRUE]

(***************************************************************************)
(* The goal template catalog (constants/templates): category id ->          *)
(* description and message pool.  Its content is not part of the sources;   *)
(* the catalogs below are the shapes the lookup in randomReminder            *)
(* distinguishes.                                                           *)
(***************************************************************************)
\* every category has a template with a one-message pool
plainCatalog ==
    [c \in GoalCategory |-> [description |-> "description", reminders |-> <<"reminder">>]]

\* every category has a template; the calmness pool has two messages
fullCatalog ==
    [c \in GoalCategory |->
        [description |-> "description",
         reminders |-> IF c = "calmness" THEN <<"breathe", "pause">> ELSE <<"reminder">>]]

\* no template for focus, an empty pool for discipline
sparseCatalog ==
    [c \in GoalCategory \ {"focus"} |->
        [description |-> "description",
         reminders |-> IF c = "discipline" THEN <<>> ELSE <<"reminder">>]]

(***************************************************************************)
(* randomReminder                                                          *)
(***************************************************************************)
\* the string returned for an empty goal list
GenericReminder == "generic"

\* the string that stands in for an empty customAction
FallbackAction == "choose"

\* goal?.customAction || '...'
fallback(goal) == IF goal.customAction # "" THEN goal.customAction ELSE FallbackAction

\* GOAL_TEMPLATES.find(...) returned undefined, or the pool is empty
noPool(tpl, goal) ==
    goal.category \notin DOMAIN tpl \/ Len(tpl[goal.category].reminders) = 0

\* the values Math.floor(Math.random() * n) can take (none needed when n = 0)
randomIndex(n) == 0..Max(0, n - 1)

\* the pool index range for the goal picked by r1
poolSize(tpl, goals, r1) ==
    IF Len(goals) = 0 \/ noPool(tpl, goals[r1 + 1]) THEN 0
    ELSE Len(tpl[goals[r1 + 1].category].reminders)

\* randomReminder that never looks at the template
randomReminder_alwaysFallback(goals, tpl, r1, r2) ==
    IF Len(goals) = 0 THEN GenericReminder ELSE fallback(goals[r1 + 1])

\* randomReminder(goals), with r1 and r2 the two random indices drawn
randomReminder(goals, tpl, r1, r2) ==
    IF Len(goals) = 0 THEN GenericReminder
    ELSE LET goal == goals[r1 + 1] IN
         IF noPool(tpl, goal) THEN fallback(goal)
         ELSE tpl[goal.category].reminders[r2 + 1]

(***************************************************************************)
(* setupNotifications: one invocation, step by step (each await is a step) *)
(***************************************************************************)
NoCalls == [c \in {} |-> 0]

\* the invocation returns: its locals are gone, its arguments stay on record
finish(cs, id) ==
    [cs EXCEPT ![id].pc = "done", ![id].i = 0, ![id].usedTimes = {}, ![id].asked = 0]

inFlight(cs) == {c \in DOMAIN cs : cs[c].pc # "done"}

put(cs, id, call) == [c \in (DOMAIN cs) \cup {id} |-> IF c = id THEN call ELSE cs[c]]

\* hour / minute / loop bound of iteration i in the revision v
triggerHour(v, settings, i) ==
    IF v = "hooks" THEN hooks_hour(settings, i) ELSE hour(settings, i)

triggerMinute(v, settings, i) ==
    IF v = "hooks" THEN hooks_minute(settings, i) ELSE minute(settings, i)

iterations(v, settings) ==
    IF v = "hooks" THEN hooks_slots(settings) ELSE loopBound(settings)

\* the next iteration that reaches scheduleNotificationAsync
following(v, settings, from, usedTimes) ==
    IF v = "hooks" THEN from ELSE nextIteration(settings, from, usedTimes)

\* usedTimes.add(triggerKey), part_000 only
remember(v, settings, i, usedTimes) ==
    IF v = "hooks" THEN usedTimes ELSE usedTimes \cup {triggerKey(settings, i)}

\* the code between the permission gate and the first scheduleNotificationAsync
enterLoop(v, cs, id) ==
    LET settings == cs[id].settings IN
    IF v = "part_000" /\ windowEmpty(settings) THEN finish(cs, id)
    ELSE [cs EXCEPT ![id].pc = "schedule", ![id].i = 0,
                    ![id].usedTimes = remember(v, settings, 0, {})]

\* setupNotifications(settings, goals) up to its first await
invoke(cs, id, settings, goals) ==
    put(cs, id, [pc |-> "cancel", settings |-> settings, goals |-> goals,
                 i |-> 0, usedTimes |-> {}, asked |-> 0])

\* the enabled/goals test placed before the cancel: a call that has nothing to
\* schedule returns without clearing
CancelAllDone_returnsFirst(id) ==
    /\ id \in DOMAIN calls
    /\ calls[id].pc = "cancel"
    /\ scheduled' = IF ~calls[id].settings.enabled \/ Len(calls[id].goals) = 0
                    THEN scheduled ELSE <<>>
    /\ calls' = IF ~calls[id].settings.enabled \/ Len(calls[id].goals) = 0
                THEN finish(calls, id)
                ELSE [calls EXCEPT ![id].pc = "permissions"]
    /\ UNCHANGED <<version, templates, permission, started>>
    /\ UNCHANGED appVars

\* await Notifications.cancelAllScheduledNotificationsAsync() completes
CancelAllDone(id) ==
    /\ id \in DOMAIN calls
    /\ calls[id].pc = "cancel"
    /\ scheduled' = <<>>
    /\ calls' = IF ~calls[id].settings.enabled \/ Len(calls[id].goals) = 0
                THEN finish(calls, id)
                ELSE [calls EXCEPT ![id].pc = "permissions"]
    /\ UNCHANGED <<version, templates, permission, started>>
    /\ UNCHANGED appVars

\* await Notifications.getPermissionsAsync() completes
GetPermissionsDone(id) ==
    /\ id \in DOMAIN calls
    /\ calls[id].pc = "permissions"
    /\ calls' = IF permission \in {"granted", "provisional"}
                THEN enterLoop(version, calls, id)
                ELSE [calls EXCEPT ![id].pc = "request", ![id].asked = @ + 1]
    /\ UNCHANGED <<version, templates, permission, scheduled, started>>
    /\ UNCHANGED appVars

\* the request's answer ignored: the call schedules although permission was denied
RequestPermissionsDone_ignoresDenial(id, granted) ==
    /\ id \in DOMAIN calls
    /\ calls[id].pc = "request"
    /\ permission' = IF granted THEN "granted" ELSE permission
    /\ calls' = enterLoop(version, calls, id)
    /\ UNCHANGED <<version, templates, scheduled, started>>
    /\ UNCHANGED appVars

\* await Notifications.requestPermissionsAsync() completes; the user answers
RequestPermissionsDone(id, granted) ==
    /\ id \in DOMAIN calls
    /\ calls[id].pc = "request"
    /\ permission' = IF granted THEN "granted" ELSE permission
    /\ calls' = IF granted THEN enterLoop(version, calls, id) ELSE finish(calls, id)
    /\ UNCHANGED <<version, templates, scheduled, started>>
    /\ UNCHANGED appVars

\* await Notifications.scheduleNotificationAsync(...) completes, loop goes on
ScheduleDone(id) ==
    /\ id \in DOMAIN calls
    /\ calls[id].pc = "schedule"
    /\ LET c == calls[id]
           n == following(version, c.settings, c.i + 1, c.usedTimes)
       IN /\ \E r1 \in randomIndex(Len(c.goals)) :
                \E r2 \in randomIndex(poolSize(templates, c.goals, r1)) :
                    scheduled' = Append(scheduled,
                        [hour |-> triggerHour(version, c.settings, c.i),
                         minute |-> triggerMinute(version, c.settings, c.i),
                         body |-> randomReminder(c.goals, templates, r1, r2),
                         goal |-> r1 + 1,
                         by |-> id])
          /\ calls' = IF n >= iterations(version, c.settings)
                      THEN finish(calls, id)
                      ELSE [calls EXCEPT ![id].i = n,
                               ![id].usedTimes = remember(version, c.settings, n, c.usedTimes)]
    /\ UNCHANGED <<version, templates, permission, started>>
    /\ UNCHANGED appVars

CallStep ==
    \E id \in DOMAIN calls :
        \/ CancelAllDone(id)
        \/ GetPermissionsDone(id)
        \/ \E granted \in BOOLEAN : RequestPermissionsDone(id, granted)
        \/ ScheduleDone(id)


(***************************************************************************)
(* utils/storage.ts                                                        *)
(***************************************************************************)
defaultState ==
    [goals |-> <<>>,
     reminderSettings |-> [enabled |-> FALSE, timesPerDay |-> 3, startHour |-> 9, endHour |-> 21],
     checkins |-> <<>>,
     profile |-> [name |-> "", onboardingCompleted |-> FALSE, isPremium |-> FALSE],
     settingsBlocks |-> <<[id |-> "traits", kind |-> "traits", title |-> "traits", color |-> "#eef4ff"],
                          [id |-> "emotions", kind |-> "emotions", title |-> "emotions", color |-> "#eefaf5"],
                          [id |-> "habits", kind |-> "habits", title |-> "habits", color |-> "#fff8eb"],
                          [id |-> "values", kind |-> "values", title |-> "values", color |-> "#f5f0ff"]>>,
     sectionNotes |-> [emotions |-> "", habits |-> "", values |-> ""]]

\* an object without own properties; what spreading undefined contributes
EmptyObject == [k \in {} |-> 0]

\* { ...a, ...b }
spread(a, b) == [k \in (DOMAIN a) \cup (DOMAIN b) |-> IF k \in DOMAIN b THEN b[k] ELSE a[k]]

\* o[k] for spreading: the value, or nothing when o has no k
prop(o, k) == IF k \in DOMAIN o THEN o[k] ELSE EmptyObject

\* JSON.stringify of a state object: the text of that object
JSONstringify(value) == [kind |-> "json", value |-> value]

\* JSON.parse: the object of a JSON object text; null for the text "null"; a
\* SyntaxError for any other text the model stores
JSONparse(raw) ==
    IF raw.kind = "json" THEN [threw |-> FALSE, isNull |-> FALSE, value |-> raw.value]
    ELSE IF raw.kind = "jsonnull" THEN [threw |-> FALSE, isNull |-> TRUE, value |-> EmptyObject]
    ELSE [threw |-> TRUE, isNull |-> FALSE, value |-> EmptyObject]

\* the generic list rule applied to settingsBlocks: parsed.settingsBlocks ?? defaults
parsedBlocks_nullish(parsed) ==
    IF "settingsBlocks" \in DOMAIN parsed THEN parsed.settingsBlocks
    ELSE defaultState.settingsBlocks

\* parsed.settingsBlocks && parsed.settingsBlocks.length > 0 ? ... : defaults
parsedBlocks(parsed) ==
    IF "settingsBlocks" \in DOMAIN parsed /\ Len(parsed.settingsBlocks) > 0
    THEN parsed.settingsBlocks
    ELSE defaultState.settingsBlocks

\* the merge without the one-level-deep merge of the nested objects
mergeParsed_shallow(parsed) ==
    spread(spread(defaultState, parsed),
           [goals |-> IF "goals" \in DOMAIN parsed THEN parsed.goals ELSE <<>>,
            checkins |-> IF "checkins" \in DOMAIN parsed THEN parsed.checkins ELSE <<>>,
            settingsBlocks |-> parsedBlocks(parsed),
            sectionNotes |-> spread(defaultState.sectionNotes, prop(parsed, "sectionNotes"))])

\* the merge with checkins read from the goals field (checkins: parsed.goals ?? [])
mergeParsed_copyPaste(parsed) ==
    spread(spread(defaultState, parsed),
           [reminderSettings |-> spread(defaultState.reminderSettings, prop(parsed, "reminderSettings")),
            profile |-> spread(defaultState.profile, prop(parsed, "profile")),
            goals |-> IF "goals" \in DOMAIN parsed THEN parsed.goals ELSE <<>>,
            checkins |-> IF "goals" \in DOMAIN parsed THEN parsed.goals ELSE <<>>,
            settingsBlocks |-> parsedBlocks(parsed),
            sectionNotes |-> spread(defaultState.sectionNotes, prop(parsed, "sectionNotes"))])

\* the object literal returned inside the try block
mergeParsed(parsed) ==
    spread(spread(defaultState, parsed),
           [reminderSettings |-> spread(defaultState.reminderSettings, prop(parsed, "reminderSettings")),
            profile |-> spread(defaultState.profile, prop(parsed, "profile")),
            goals |-> IF "goals" \in DOMAIN parsed THEN parsed.goals ELSE <<>>,
            checkins |-> IF "checkins" \in DOMAIN parsed THEN parsed.checkins ELSE <<>>,
            settingsBlocks |-> parsedBlocks(parsed),
            sectionNotes |-> spread(defaultState.sectionNotes, prop(parsed, "sectionNotes"))])

\* loadState returning an empty object when nothing is stored
loadState_emptyObject(raw) ==
    IF raw.kind \in {"null", "empty"} THEN EmptyObject
    ELSE LET p == JSONparse(raw) IN
         IF p.threw \/ p.isNull THEN defaultState
         ELSE mergeParsed(p.value)

\* loadState once getItem has resolved with raw
loadState(raw) ==
    IF raw.kind \in {"null", "empty"} THEN defaultState
    ELSE LET p == JSONparse(raw) IN
         IF p.threw \/ p.isNull THEN defaultState   \* SyntaxError / TypeError, caught
         ELSE mergeParsed(p.value)

\* the value saveState hands to AsyncStorage.setItem
saveState(st) == JSONstringify(st)


(***************************************************************************)
(* App.tsx: the screen's own state                                         *)
(***************************************************************************)
\* createTaskDraft()
createTaskDraft ==
    [title |-> "", description |-> "", motivation |-> "", motivationImageUri |-> "",
     reminders |-> [enabled |-> FALSE,
                    config |-> [mode |-> "fixed",
                                weekdays |-> <<"mon", "tue", "wed", "thu", "fri">>,
                                times |-> <<>>]]]

\* the initial values of the useState hooks and refs of App; "" stands for a
\* null id, 0 for a null score, and a text input is the sequence of its characters
initialUi ==
    [activeTab |-> "settings",
     settingsSection |-> "",
     onboardingStep |-> 1,
     historyRange |-> 7,
     checkinScore |-> 0,
     checkinNote |-> "",
     isTaskModalVisible |-> FALSE,
     taskWizardStep |-> 1,
     taskDraft |-> createTaskDraft,
     taskBlockId |-> "",
     fixedTimeInput |-> <<>>,
     activeMenuBlockId |-> "",
     isAddModalVisible |-> FALSE,
     isNewBlockModalVisible |-> FALSE,
     newBlockName |-> "",
     isReorderMode |-> FALSE,
     draftBlocks |-> <<>>,
     draggingBlockId |-> "",
     dragOriginIndex |-> 0,
     draggingBlockRef |-> "",
     dragBaseBlocksRef |-> <<>>,
     dragOriginIndexRef |-> 0,
     dragTargetIndexRef |-> 0]

\* formatDateKey of the days the runs cover, in calendar order
Days == <<"2024-01-02", "2024-01-03", "2024-01-04">>

\* todayKey() on the day with number n
todayKey(n) == Days[n]

\* String.prototype.trim on the texts the runs type
Texts == {"", " ", "ok", " ok "}
trim(text) == IF text = " " THEN "" ELSE IF text = " ok " THEN "ok" ELSE text

\* state.checkins.find(item => item.date === today), as a list of at most its result
todayCheckin(checkins, date) ==
    LET found == SelectSeq(checkins, LAMBDA item : item.date = date)
    IN IF Len(found) = 0 THEN <<>> ELSE <<found[1]>>

\* useEffect [todayCheckin]: setCheckinScore(todayCheckin?.score ?? null);
\* setCheckinNote(todayCheckin?.note ?? '')
todayCheckinEffect(u, checkins, date) ==
    LET found == todayCheckin(checkins, date)
    IN [u EXCEPT !.checkinScore = IF Len(found) = 0 THEN 0 ELSE found[1].score,
                 !.checkinNote = IF Len(found) = 0 THEN "" ELSE found[1].note]

(***************************************************************************)
(* App.tsx: effects                                                        *)
(***************************************************************************)
\* useMemo(() => state.goals.filter((goal) => goal.isActive))
activeGoalsList(st) == SelectSeq(st.goals, LAMBDA goal : goal.isActive)

\* a dependency list [loaded] that misses state
saveDeps_loadedOnly(loadedChanged, stateChanged) == loadedChanged

\* dependency list [loaded, state] of the save effect
saveDeps(loadedChanged, stateChanged) == loadedChanged \/ stateChanged

\* dependency list [activeGoalsList, loaded, setupNotifications, state.reminderSettings]
notificationDeps(goalsChanged, loadedChanged, settingsChanged) ==
    goalsChanged \/ loadedChanged \/ settingsChanged

\* the save effect without its loaded gate
SaveEffect_ungated(ld, st) ==
    /\ pendingWrites' = Append(pendingWrites, saveState(st))
    /\ saved' = st
    /\ saveCalls' = saveCalls + 1

\* useEffect: if (!loaded) return; void saveState(state)
SaveEffect(ld, st) ==
    IF ~ld THEN UNCHANGED <<pendingWrites, saved, saveCalls>>
    ELSE /\ pendingWrites' = Append(pendingWrites, saveState(st))
         /\ saved' = st
         /\ saveCalls' = saveCalls + 1

\* useEffect: if (!loaded) return; void setupNotifications(state.reminderSettings, activeGoalsList)
NotificationEffect(ld, st) ==
    IF ~ld THEN UNCHANGED <<calls, started>>
    ELSE /\ calls' = invoke(calls, started + 1, st.reminderSettings, activeGoalsList(st))
         /\ started' = started + 1

\* the effects that follow a commit, by what the render changed
RunEffects(ld, st, loadedChanged, touched) ==
    /\ IF saveDeps(loadedChanged, touched # {})
       THEN SaveEffect(ld, st)
       ELSE UNCHANGED <<pendingWrites, saved, saveCalls>>
    /\ IF notificationDeps("goals" \in touched, loadedChanged, "reminderSettings" \in touched)
       THEN NotificationEffect(ld, st)
       ELSE UNCHANGED <<calls, started>>

(***************************************************************************)
(* App.tsx: startup                                                        *)
(***************************************************************************)
\* first render: every effect runs once; bootstrap() calls loadState()
Mount ==
    /\ bootPc = "start"
    /\ bootPc' = "loading"
    /\ loadCalls' = loadCalls + 1
    /\ SaveEffect(loaded, state)
    /\ NotificationEffect(loaded, state)
    /\ UNCHANGED <<version, templates, permission, scheduled, state, loaded, storage, now, today, ui>>

\* AsyncStorage.getItem resolves; loadState returns; setState(stored); setLoaded(true)
BootstrapResolve ==
    /\ bootPc = "loading"
    /\ bootPc' = "done"
    /\ state' = loadState(storage)
    /\ loaded' = TRUE
    /\ ui' = todayCheckinEffect(ui, loadState(storage).checkins, todayKey(today))
    /\ RunEffects(TRUE, loadState(storage), TRUE, {"state"})
    /\ UNCHANGED <<version, templates, permission, scheduled, storage, loadCalls, now, today>>

\* AsyncStorage.getItem rejects: the await in loadState is outside its try block,
\* so loadState and bootstrap reject and setLoaded is never reached
BootstrapReject ==
    /\ bootPc = "loading"
    /\ bootPc' = "failed"
    /\ UNCHANGED <<version, templates, permission, scheduled, calls, started, state, loaded,
                   storage, pendingWrites, saved, loadCalls, saveCalls, now, today, ui>>

\* the storage collaborator completes the oldest setItem
StorageWriteDone ==
    /\ pendingWrites # <<>>
    /\ storage' = Head(pendingWrites)
    /\ pendingWrites' = Tail(pendingWrites)
    /\ UNCHANGED <<version, templates, permission, scheduled, calls, started, state, loaded,
                   bootPc, saved, loadCalls, saveCalls, now, today, ui>>

(***************************************************************************)
(* App.tsx: handlers (each is setState(prev => next) and the commit's      *)
(* effects)                                                                *)
(***************************************************************************)
\* setState(prev => next) together with setters of the screen's own values,
\* batched into one render
Update(next, touched, nextUi) ==
    /\ loaded
    /\ state' = next
    /\ ui' = nextUi
    /\ now' = now + 1
    /\ RunEffects(loaded, next, FALSE, touched \cup {"state"})
    /\ UNCHANGED <<version, templates, permission, scheduled, loaded, bootPc, storage, loadCalls,
                   today>>

Commit(next, touched) == Update(next, touched, ui)

\* setters of the screen's own values only: a render without a state change
SetUi(nextUi) ==
    /\ loaded
    /\ ui' = nextUi
    /\ UNCHANGED <<version, templates, permission, scheduled, calls, started, state, loaded,
                   bootPc, storage, pendingWrites, saved, loadCalls, saveCalls, now, today>>

\* toggleGoal that appends without looking for an existing goal
toggleGoal_appendOnly(category) ==
    Commit([state EXCEPT !.goals = Append(state.goals, createGoal(category, now))], {"goals"})

toggleGoal(category) ==
    LET existing == \E k \in 1..Len(state.goals) : state.goals[k].category = category
    IN Commit([state EXCEPT !.goals =
                  IF existing
                  THEN SelectSeq(state.goals, LAMBDA goal : goal.category # category)
                  ELSE Append(state.goals, createGoal(category, now))],
              {"goals"})

\* prev.goals.map(goal => goal.category === category ? {...goal, customAction: text} : goal)
updateGoalAction(category, text) ==
    Commit([state EXCEPT !.goals =
                [k \in 1..Len(state.goals) |->
                    IF state.goals[k].category = category
                    THEN [state.goals[k] EXCEPT !.customAction = text]
                    ELSE state.goals[k]]],
           {"goals"})

\* the check-in the save button stores
newCheckin == [date |-> todayKey(today), score |-> ui.checkinScore, note |-> trim(ui.checkinNote)]

\* saveTodayCheckin that appends without looking for today's entry
saveTodayCheckin_appendOnly ==
    IF ui.checkinScore = 0 THEN UNCHANGED vars
    ELSE Update([state EXCEPT !.checkins = Append(state.checkins, newCheckin)], {"checkins"},
                todayCheckinEffect(ui, Append(state.checkins, newCheckin), todayKey(today)))

\* saveTodayCheckin: an alert and nothing else without a score; otherwise
\* today's entry is replaced or appended, and the [todayCheckin] effect runs
saveTodayCheckin ==
    IF ui.checkinScore = 0 THEN UNCHANGED vars
    ELSE LET existing == \E k \in 1..Len(state.checkins) : state.checkins[k].date = todayKey(today)
             checkins == IF existing
                         THEN [k \in 1..Len(state.checkins) |->
                                  IF state.checkins[k].date = todayKey(today)
                                  THEN newCheckin ELSE state.checkins[k]]
                         ELSE Append(state.checkins, newCheckin)
         IN Update([state EXCEPT !.checkins = checkins], {"checkins"},
                   todayCheckinEffect(ui, checkins, todayKey(today)))

\* onScoreChange / onNoteChange of HomeScreen
setCheckinScore(score) == SetUi([ui EXCEPT !.checkinScore = score])
setCheckinNote(text) == SetUi([ui EXCEPT !.checkinNote = text])

\* midnight passes and the app renders again: today is the next day, and the
\* [todayCheckin] effect runs
NewDay ==
    /\ loaded
    /\ today < Len(Days)
    /\ today' = today + 1
    /\ ui' = todayCheckinEffect(ui, state.checkins, todayKey(today + 1))
    /\ UNCHANGED <<version, templates, permission, scheduled, calls, started, state, loaded,
                   bootPc, storage, pendingWrites, saved, loadCalls, saveCalls, now>>

\* Switch onValueChange
setEnabled(enabled) ==
    Commit([state EXCEPT !.reminderSettings.enabled = enabled], {"reminderSettings"})

\* the "-" and "+" buttons of the timesPerDay counter
timesPerDayMinus ==
    Commit([state EXCEPT !.reminderSettings.timesPerDay = Max(1, @ - 1)], {"reminderSettings"})

timesPerDayPlus ==
    Commit([state EXCEPT !.reminderSettings.timesPerDay = Min(MaxSlots, @ + 1)], {"reminderSettings"})

updateReminderWindow(field, delta) ==
    LET s0 == state.reminderSettings.startHour
        e0 == state.reminderSettings.endHour
        s1 == IF field = "startHour" THEN clamp(s0 + delta, 0, 22) ELSE s0
        e1 == IF field = "startHour"
              THEN (IF s1 >= e0 THEN clamp(s1 + 1, 1, 23) ELSE e0)
              ELSE clamp(e0 + delta, 1, 23)
        s2 == IF field = "startHour" THEN s1
              ELSE (IF e1 <= s0 THEN clamp(e1 - 1, 0, 22) ELSE s0)
    IN Commit([state EXCEPT !.reminderSettings.startHour = s2,
                            !.reminderSettings.endHour = e1],
              {"reminderSettings"})

\* delete obj[key]
without(obj, key) == [k \in (DOMAIN obj) \ {key} |-> obj[k]]

\* deleteBlock that keeps the block's tasks
deleteBlock_keepTasks(blockId) ==
    Update(spread(state,
                  [settingsBlocks |-> SelectSeq(state.settingsBlocks, LAMBDA block : block.id # blockId),
                   sectionNotes |-> without(prop(state, "sectionNotes"), blockId),
                   sectionTasks |-> prop(state, "sectionTasks")]),
           {"settingsBlocks", "sectionNotes", "sectionTasks"},
           [ui EXCEPT !.activeMenuBlockId = "",
                      !.settingsSection = IF @ = blockId THEN "" ELSE @])

deleteBlock(blockId) ==
    Update(spread(state,
                  [settingsBlocks |-> SelectSeq(state.settingsBlocks, LAMBDA block : block.id # blockId),
                   sectionNotes |-> without(prop(state, "sectionNotes"), blockId),
                   sectionTasks |-> without(prop(state, "sectionTasks"), blockId)]),
           {"settingsBlocks", "sectionNotes", "sectionTasks"},
           [ui EXCEPT !.activeMenuBlockId = "",
                      !.settingsSection = IF @ = blockId THEN "" ELSE @])

\* the handlers of one run: at most MaxNow mutations, and a mutation that
\* starts setupNotifications only while fewer than MaxInFlight are awaiting
Handler ==
    /\ now < MaxNow
    /\ \/ /\ Cardinality(inFlight(calls)) < MaxInFlight
          /\ \/ \E category \in {"calmness"} : toggleGoal(category)
             \/ \E enabled \in BOOLEAN \ {state.reminderSettings.enabled} : setEnabled(enabled)
             \/ timesPerDayMinus
             \/ timesPerDayPlus
             \/ \E change \in {<<"startHour", 1>>, <<"endHour", -1>>} :
                    updateReminderWindow(change[1], change[2])
       \/ \E blockId \in {"emotions"} : deleteBlock(blockId)


(***************************************************************************)
(* The application: startup, handlers, collaborators                       *)
(***************************************************************************)
\* a state an earlier run of the app has saved
storedState ==
    [goals |-> <<createGoal("calmness", 0)>>,
     reminderSettings |-> [enabled |-> TRUE, timesPerDay |-> 2, startHour |-> 9, endHour |-> 21],
     checkins |-> <<[date |-> "2024-01-01", score |-> 4, note |-> "ok"]>>,
     profile |-> [name |-> "Al", onboardingCompleted |-> TRUE, isPremium |-> FALSE],
     settingsBlocks |-> defaultState.settingsBlocks,
     sectionNotes |-> [emotions |-> "", habits |-> "note", values |-> ""],
     sectionTasks |-> EmptyObject]

InitialStorage ==
    {[kind |-> "null"], JSONstringify(storedState)}

Init ==
    /\ version \in Versions
    /\ templates = plainCatalog
    /\ permission \in {"granted", "undetermined"}
    /\ scheduled = <<>>
    /\ calls = NoCalls
    /\ started = 0
    /\ state = defaultState
    /\ loaded = FALSE
    /\ bootPc = "start"
    /\ storage \in InitialStorage
    /\ pendingWrites = <<>>
    /\ saved = defaultState
    /\ loadCalls = 0
    /\ saveCalls = 0
    /\ now = 0
    /\ today = 1
    /\ ui = initialUi

Next ==
    \/ Mount
    \/ BootstrapResolve
    \/ BootstrapReject
    \/ StorageWriteDone
    \/ Handler
    \/ CallStep

Spec == Init /\ [][Next]_vars

\* the storage collaborator answers every request; the notification
\* collaborator answers every request; the first render happens
FairSpec ==
    /\ Init /\ [][Next]_vars
    /\ WF_vars(Mount)
    /\ WF_vars(BootstrapResolve \/ BootstrapReject)
    /\ WF_vars(StorageWriteDone)
    /\ WF_vars(CallStep)

(***************************************************************************)
(* One setupNotifications call on arbitrary arguments                      *)
(***************************************************************************)
\* in-range arguments, and out-of-range ones as a stale persisted blob has them
SchedSettings ==
    [enabled : BOOLEAN, timesPerDay : (-1)..MaxTimesPerDay,
     startHour : (0 - HourSlack)..(LastHour + HourSlack),
     endHour : (0 - HourSlack)..(LastHour + HourSlack)]

SchedGoals == {<<>>, <<createGoal("calmness", 0)>>}

\* what an earlier call has left scheduled
staleSchedule == <<[hour |-> 8, minute |-> 0, body |-> "reminder", goal |-> 1, by |-> 0]>>

SchedInit ==
    /\ version \in Versions
    /\ templates = plainCatalog
    /\ permission \in Permissions
    /\ scheduled = staleSchedule
    /\ calls = NoCalls
    /\ started = 0
    /\ state = defaultState
    /\ loaded = TRUE
    /\ bootPc = "done"
    /\ storage = [kind |-> "null"]
    /\ pendingWrites = <<>>
    /\ saved = defaultState
    /\ loadCalls = 1
    /\ saveCalls = 0
    /\ now = 0
    /\ today = 1
    /\ ui = initialUi

\* setupNotifications(settings, goals) is called
SchedCall ==
    /\ started = 0
    /\ \E settings \in SchedSettings, goals \in SchedGoals :
          calls' = invoke(calls, 1, settings, goals)
    /\ started' = 1
    /\ UNCHANGED <<version, templates, permission, scheduled>>
    /\ UNCHANGED appVars

SchedNext ==
    \/ SchedCall
    \/ CallStep

SchedSpec == SchedInit /\ [][SchedNext]_vars


(***************************************************************************)
(* loadState / saveState on arbitrary stored values                        *)
(***************************************************************************)
customBlock == [id |-> "custom-1", kind |-> "custom", title |-> "mine", color |-> "#f0f6ff"]

sampleTask ==
    [id |-> "task-1", title |-> "t", description |-> "d", motivation |-> "m",
     motivationImageUri |-> "",
     reminders |-> [enabled |-> FALSE,
                    config |-> [mode |-> "fixed", weekdays |-> <<"mon">>, times |-> <<>>]]]

\* the four template blocks without "emotions" (deleted by the user)
blocksWithoutEmotions == SelectSeq(defaultState.settingsBlocks, LAMBDA block : block.id # "emotions")

\* per field: << >> when the blob lacks the field, << v >> when it carries v
BlobOptions ==
    [goals : {<<>>, << <<>> >>, << <<createGoal("focus", 1)>> >>},
     reminderSettings : {<<>>, <<[timesPerDay |-> 5]>>, <<[enabled |-> TRUE, startHour |-> 8]>>,
                         <<[enabled |-> TRUE, timesPerDay |-> 2, startHour |-> 8, endHour |-> 20]>>},
     checkins : {<<>>, << <<>> >>, << <<[date |-> "2024-01-01", score |-> 4, note |-> "ok"]>> >>},
     profile : {<<>>, <<[name |-> "Al"]>>,
                <<[name |-> "Al", onboardingCompleted |-> TRUE, isPremium |-> TRUE]>>},
     settingsBlocks : {<<>>, << <<>> >>, <<Append(blocksWithoutEmotions, customBlock)>>},
     sectionNotes : {<<>>, <<[habits |-> "note"]>>},
     sectionTasks : {<<>>, <<EmptyObject>>, <<[habits |-> <<sampleTask>>]>>}]

\* the JSON object an option record stands for
blobOf(opt) == [k \in {f \in DOMAIN opt : Len(opt[f]) > 0} |-> opt[k][1]]

\* what the storage can hold under KEY
RawValues ==
    {[kind |-> "null"], [kind |-> "empty"], [kind |-> "garbage"], [kind |-> "jsonnull"]}
        \cup {JSONstringify(blobOf(opt)) : opt \in BlobOptions}

\* well-formed AppState values the running app can hold and save
WellFormedStates ==
    {[goals |-> g, reminderSettings |-> r, checkins |-> c, profile |-> p,
      settingsBlocks |-> b[1], sectionNotes |-> b[2], sectionTasks |-> t] :
        g \in {<<>>, <<createGoal("focus", 1)>>},
        r \in {defaultState.reminderSettings,
               [enabled |-> TRUE, timesPerDay |-> 2, startHour |-> 8, endHour |-> 20]},
        c \in {<<>>, <<[date |-> "2024-01-01", score |-> 4, note |-> "ok"]>>},
        p \in {defaultState.profile, [name |-> "Al", onboardingCompleted |-> TRUE, isPremium |-> TRUE]},
        b \in {<<defaultState.settingsBlocks, [emotions |-> "", habits |-> "note", values |-> ""]>>,
               <<Append(defaultState.settingsBlocks, customBlock),
                 spread(defaultState.sectionNotes, [x \in {"custom-1"} |-> "mine"])>>,
               \* the user has deleted the "emotions" block: deleteBlock drops its note
               <<blocksWithoutEmotions, [habits |-> "", values |-> ""]>>,
               \* the user has deleted every block
               << <<>>, EmptyObject >>},
        t \in {EmptyObject, [habits |-> <<sampleTask>>]}}

StoreInit ==
    /\ version \in Versions
    /\ templates = plainCatalog
    /\ permission = "granted"
    /\ scheduled = <<>>
    /\ calls = NoCalls
    /\ started = 0
    /\ state = defaultState
    /\ loaded = FALSE
    /\ bootPc = "start"
    /\ storage \in RawValues
    /\ pendingWrites = <<>>
    /\ saved = defaultState
    /\ loadCalls = 0
    /\ saveCalls = 0
    /\ now = 0
    /\ today = 1
    /\ ui = initialUi

\* await loadState(): getItem resolves and loadState returns
StoreLoadReturns ==
    /\ bootPc = "start"
    /\ bootPc' = "done"
    /\ state' = loadState(storage)
    /\ loaded' = TRUE
    /\ loadCalls' = loadCalls + 1
    /\ UNCHANGED <<storage, pendingWrites, saved, saveCalls, now, today, ui>>
    /\ UNCHANGED notifVars

\* await loadState(): getItem rejects and loadState rejects with it
StoreLoadThrows ==
    /\ bootPc = "start"
    /\ bootPc' = "failed"
    /\ loadCalls' = loadCalls + 1
    /\ UNCHANGED <<state, loaded, storage, pendingWrites, saved, saveCalls, now, today, ui>>
    /\ UNCHANGED notifVars

\* await saveState(S) completes; the app is started again afterwards
StoreSave ==
    /\ bootPc = "done"
    /\ saveCalls = 0
    /\ \E S \in WellFormedStates :
          /\ storage' = saveState(S)
          /\ saved' = S
    /\ saveCalls' = 1
    /\ state' = defaultState
    /\ loaded' = FALSE
    /\ bootPc' = "start"
    /\ UNCHANGED <<pendingWrites, loadCalls, now, today, ui>>
    /\ UNCHANGED notifVars

StoreNext ==
    \/ StoreLoadReturns
    \/ StoreLoadThrows
    \/ StoreSave

StoreSpec == StoreInit /\ [][StoreNext]_vars


(***************************************************************************)
(* Properties                                                              *)
(***************************************************************************)
\* the (hour, minute) pairs the loop of revision v passes to the collaborator
plan(v, settings) ==
    IF v = "part_000" /\ windowEmpty(settings) THEN {}
    ELSE {<<triggerHour(v, settings, i), triggerMinute(v, settings, i)>> :
             i \in 0..(iterations(v, settings) - 1)}

\* the notifications invocation id has scheduled, in the order it scheduled them
scheduledBy(id) == SelectSeq(scheduled, LAMBDA n : n.by = id)

minuteOfDay(n) == n.hour * 60 + n.minute

\* the arguments of the single call are in the documented ranges
validCall ==
    /\ started = 1
    /\ calls[1].settings.timesPerDay \in 1..MaxSlots
    /\ calls[1].settings.startHour \in Hours
    /\ calls[1].settings.endHour \in Hours
    /\ calls[1].settings.startHour < calls[1].settings.endHour

\* C1: once every setupNotifications invocation has finished, the scheduled
\* notifications are exactly those of the most recently started invocation:
\* none scheduled by an earlier invocation remains.
C1_Supersession ==
    (started > 0 /\ inFlight(calls) = {}) =>
        /\ \A k \in 1..Len(scheduled) : scheduled[k].by = started
        /\ {<<scheduled[k].hour, scheduled[k].minute>> : k \in 1..Len(scheduled)}
              \subseteq plan(version, calls[started].settings)

C3_LoadBeforeSave ==
    /\ loadCalls <= 1
    /\ ~loaded => (saveCalls = 0 /\ pendingWrites = <<>>)
    /\ saveCalls > 0 => (bootPc = "done" /\ loadCalls = 1)

\* C3 witness: the stored value was read and installed, then a save was issued
C3_Witness ==
    /\ loaded
    /\ loadCalls = 1
    /\ saveCalls >= 1
    /\ state.profile.name = "Al"

\* every field AppState requires, top-level and known nested
Complete(st) ==
    /\ {"goals", "reminderSettings", "checkins", "profile", "settingsBlocks",
        "sectionNotes", "sectionTasks"} \subseteq DOMAIN st
    /\ {"enabled", "timesPerDay", "startHour", "endHour"} \subseteq DOMAIN st.reminderSettings
    /\ {"name", "onboardingCompleted", "isPremium"} \subseteq DOMAIN st.profile

\* C4: whatever the stored value, the state loadState returns has every field
\* AppState requires.
C4_LoadedStateComplete ==
    bootPc = "done" => Complete(state)

\* C5: saving a well-formed state S and loading it again returns S.
C5_RoundTrip ==
    (bootPc = "done" /\ saveCalls = 1) => state = saved

\* C6: loadState never fails: a rejected read or an unparsable stored string
\* both end in a normal return of the default state.
C6_LoadNeverThrows ==
    /\ bootPc # "failed"
    /\ (bootPc = "done" /\ storage.kind = "garbage") => state = defaultState

\* C7: whatever the storage read does, the app eventually has loaded = true.
C7_StartupCompletes == <>loaded

\* C8: with timesPerDay in 1..8 and 0 <= startHour < endHour <= 23, every
\* reminder the call schedules lies between startHour:00 and (endHour-1):59.
C8_WithinWindow ==
    validCall =>
        \A k \in 1..Len(scheduledBy(1)) :
            /\ minuteOfDay(scheduledBy(1)[k]) >= calls[1].settings.startHour * 60
            /\ minuteOfDay(scheduledBy(1)[k]) <= (calls[1].settings.endHour - 1) * 60 + 59

\* C9: with timesPerDay in 1..8 and endHour > startHour, no two reminders the
\* call schedules have the same (hour, minute).
C9_NoDuplicateTimes ==
    validCall =>
        \A j, k \in 1..Len(scheduledBy(1)) :
            (scheduledBy(1)[j].hour = scheduledBy(1)[k].hour
                /\ scheduledBy(1)[j].minute = scheduledBy(1)[k].minute) => j = k

\* C10: with timesPerDay in 1..8 and endHour > startHour, the call schedules at
\* most timesPerDay reminders, in non-decreasing time-of-day order.
C10_AtMostTimesPerDayInOrder ==
    validCall =>
        /\ Len(scheduledBy(1)) <= calls[1].settings.timesPerDay
        /\ \A k \in 1..(Len(scheduledBy(1)) - 1) :
              minuteOfDay(scheduledBy(1)[k]) <= minuteOfDay(scheduledBy(1)[k + 1])

\* C10 witness: a finished call of the minute-step revision that scheduled all
\* eight reminders of a one-hour window
C10_Witness ==
    /\ validCall
    /\ version = "part_000"
    /\ calls[1].pc = "done"
    /\ calls[1].settings.timesPerDay = 8
    /\ calls[1].settings.endHour = calls[1].settings.startHour + 1
    /\ Len(scheduledBy(1)) = 8


\* the time of day of iteration i of the minute-step partition
partitionMinute(settings, i) ==
    settings.startHour * 60
        + i * Max(1, ((settings.endHour - settings.startHour) * 60) \div clamp(settings.timesPerDay, 1, 8))

\* the arguments with timesPerDay clamped to 1..8 and the hours to 0..23
clamped(settings) ==
    [settings EXCEPT !.timesPerDay = clamp(settings.timesPerDay, 1, 8),
                     !.startHour = clamp(settings.startHour, 0, 23),
                     !.endHour = clamp(settings.endHour, 0, 23)]

\* C11: when endHour <= startHour the call schedules no reminder, whatever
\* timesPerDay is, and what was scheduled before the call is cleared.
C11_EmptyWindowSchedulesNothing ==
    (started = 1 /\ calls[1].settings.endHour <= calls[1].settings.startHour) =>
        /\ scheduledBy(1) = <<>>
        /\ calls[1].pc = "done" => scheduled = <<>>

\* C12: with a window startHour < endHour inside 0..23, the i-th reminder of the
\* call is at startHour*60 + i*stepMinutes minutes of the day, where
\* stepMinutes = max(1, floor((endHour-startHour)*60 / clamp(timesPerDay,1,8))),
\* and a call that schedules at all schedules clamp(timesPerDay,1,8) reminders.
C12_MinuteStepPartition ==
    (/\ started = 1
     /\ calls[1].settings.startHour \in Hours
     /\ calls[1].settings.endHour \in Hours
     /\ calls[1].settings.startHour < calls[1].settings.endHour) =>
        /\ \A k \in 1..Len(scheduledBy(1)) :
              minuteOfDay(scheduledBy(1)[k]) = partitionMinute(calls[1].settings, k - 1)
        /\ (calls[1].pc = "done" /\ Len(scheduledBy(1)) > 0) =>
              Len(scheduledBy(1)) = clamp(calls[1].settings.timesPerDay, 1, 8)

\* C13: for arguments outside the documented ranges the call behaves as for the
\* clamped arguments: at most 8 reminders, every hour passed to the
\* collaborator in 0..23, and the k-th reminder is the k-th reminder of the
\* call with clamped arguments.
C13_ClampsDefensively ==
    started = 1 =>
        /\ Len(scheduledBy(1)) <= MaxSlots
        /\ \A k \in 1..Len(scheduledBy(1)) :
              /\ scheduledBy(1)[k].hour \in Hours
              /\ scheduledBy(1)[k].hour = triggerHour(version, clamped(calls[1].settings), k - 1)
              /\ scheduledBy(1)[k].minute = triggerMinute(version, clamped(calls[1].settings), k - 1)


\* loadState has returned for the value the storage holds (no save in between)
loadedFrom(kind) == bootPc = "done" /\ storage.kind = kind

\* C14: loadState on empty storage returns a state equal to the default state.
C14_EmptyStorageGivesDefault ==
    loadedFrom("null") => state = defaultState

\* C14 witness: loadState has returned on storage without a value under the key
C14_Witness ==
    /\ loadedFrom("null")
    /\ loadCalls = 1
    /\ saveCalls = 0
    /\ state.reminderSettings.timesPerDay = 3

\* C15: for every persisted blob and every sub-field f of reminderSettings and
\* profile, the loaded f is the persisted value when the blob carries f and
\* the default otherwise; {profile:{name:"Al"}} loads with name "Al",
\* onboardingCompleted false and goals [].
C15_NestedFieldMerge ==
    loadedFrom("json") =>
        /\ \A obj \in {"reminderSettings", "profile"} :
              \A f \in DOMAIN defaultState[obj] :
                  /\ f \in DOMAIN state[obj]
                  /\ state[obj][f] =
                        IF obj \in DOMAIN storage.value /\ f \in DOMAIN storage.value[obj]
                        THEN storage.value[obj][f]
                        ELSE defaultState[obj][f]
        /\ storage.value = [profile |-> [name |-> "Al"]] =>
              /\ state.profile.name = "Al"
              /\ state.profile.onboardingCompleted = FALSE
              /\ state.goals = <<>>

\* C15 witness: the blob {profile:{name:"Al"}} has been loaded
C15_Witness ==
    /\ loadedFrom("json")
    /\ storage.value = [profile |-> [name |-> "Al"]]
    /\ state.profile = [name |-> "Al", onboardingCompleted |-> FALSE, isPremium |-> FALSE]

\* C16: a blob whose settingsBlocks is absent or empty loads with the four
\* default template blocks traits, emotions, habits, values in that order; a
\* non-empty persisted settingsBlocks list is returned unchanged.
C16_SettingsBlocksException ==
    loadedFrom("json") =>
        IF "settingsBlocks" \in DOMAIN storage.value /\ Len(storage.value.settingsBlocks) > 0
        THEN state.settingsBlocks = storage.value.settingsBlocks
        ELSE /\ state.settingsBlocks = defaultState.settingsBlocks
             /\ [k \in 1..Len(state.settingsBlocks) |-> state.settingsBlocks[k].id]
                   = <<"traits", "emotions", "habits", "values">>

\* C16 witness: a blob that carries settingsBlocks: [] has been loaded
C16_Witness ==
    /\ loadedFrom("json")
    /\ "settingsBlocks" \in DOMAIN storage.value
    /\ storage.value.settingsBlocks = <<>>
    /\ Len(state.settingsBlocks) = 4

\* C17: goals and checkins load as the empty list when absent from the blob,
\* as the empty list when persisted empty, and unchanged when non-empty.
C17_ListFields ==
    loadedFrom("json") =>
        \A f \in {"goals", "checkins"} :
            state[f] = IF f \in DOMAIN storage.value THEN storage.value[f] ELSE <<>>

\* C17 witness: a blob with a non-empty goals list and no checkins field
C17_Witness ==
    /\ loadedFrom("json")
    /\ "goals" \in DOMAIN storage.value
    /\ "checkins" \notin DOMAIN storage.value
    /\ Len(state.goals) = 1
    /\ state.checkins = <<>>


\* the single call got past the enabled/goals test, found permission not
\* granted, and has returned with permission still not granted: its one
\* request was denied
deniedCall ==
    /\ started = 1
    /\ calls[1].pc = "done"
    /\ calls[1].settings.enabled
    /\ Len(calls[1].goals) > 0
    /\ permission = "undetermined"

\* C18: no call asks for permission more than once (a call awaiting the answer
\* has asked exactly once), and a call whose request is denied has scheduled no
\* reminder and has cleared what was scheduled before it.
C18_PermissionDenied ==
    /\ started = 1 =>
          /\ calls[1].asked <= 1
          /\ calls[1].pc = "request" => (calls[1].asked = 1 /\ scheduled = <<>>)
    /\ deniedCall => scheduled = <<>>

\* C18 witness: a denied call with a valid window and three reminders per day
C18_Witness ==
    /\ deniedCall
    /\ calls[1].settings.startHour = 9
    /\ calls[1].settings.endHour = 21
    /\ calls[1].settings.timesPerDay = 3
    /\ scheduled = <<>>


\* invocation id, made with enabled = false, returns in this step and leaves no
\* invocation in flight
disabledCallFinishes(id) ==
    /\ calls[id].pc # "done"
    /\ ~calls[id].settings.enabled
    /\ calls'[id].pc = "done"
    /\ inFlight(calls') = {}

\* C19: nothing is scheduled (and no call is started) before the initial load
\* has completed, and whenever a call made with enabled = false finishes with
\* no other call in flight, nothing is scheduled.
C19_OnlyWhenEnabled ==
    /\ [](~loaded => (scheduled = <<>> /\ started = 0))
    /\ [][\A id \in DOMAIN calls : disabledCallFinishes(id) => scheduled' = <<>>]_vars

\* C19 witness: reminders were enabled when the app loaded, the user switched
\* them off, and the call made for that has finished with none in flight
C19_Witness ==
    /\ loaded
    /\ started >= 2
    /\ inFlight(calls) = {}
    /\ calls[1].settings.enabled
    /\ Len(calls[1].goals) > 0
    /\ ~calls[started].settings.enabled
    /\ scheduled = <<>>


(***************************************************************************)
(* Message selection: setupNotifications calls over goal lists and catalogs *)
(***************************************************************************)
\* goals as the app holds them: created from a template, the action text
\* edited, or the action text cleared in the text field
MsgGoalPool ==
    {createGoal("calmness", 0),
     [createGoal("focus", 1) EXCEPT !.customAction = "my step"],
     [createGoal("focus", 1) EXCEPT !.customAction = ""],
     [createGoal("discipline", 2) EXCEPT !.customAction = "my rule"]}

\* active goal lists with one or two goals of different categories
MsgGoals ==
    {<<g>> : g \in MsgGoalPool}
        \cup {<<p[1], p[2]>> : p \in {q \in MsgGoalPool \X MsgGoalPool : q[1].category # q[2].category}}

MsgSettings ==
    [enabled : {TRUE}, timesPerDay : 1..2, startHour : {9}, endHour : {21}]

MsgInit ==
    /\ version \in Versions
    /\ templates \in {fullCatalog, sparseCatalog}
    /\ permission \in {"granted", "undetermined"}
    /\ scheduled = <<>>
    /\ calls = NoCalls
    /\ started = 0
    /\ state = defaultState
    /\ loaded = TRUE
    /\ bootPc = "done"
    /\ storage = [kind |-> "null"]
    /\ pendingWrites = <<>>
    /\ saved = defaultState
    /\ loadCalls = 1
    /\ saveCalls = 0
    /\ now = 0
    /\ today = 1
    /\ ui = initialUi

\* setupNotifications(settings, goals) is called
MsgCall ==
    /\ started = 0
    /\ \E settings \in MsgSettings, goals \in MsgGoals :
          calls' = invoke(calls, 1, settings, goals)
    /\ started' = 1
    /\ UNCHANGED <<version, templates, permission, scheduled>>
    /\ UNCHANGED appVars

MsgNext ==
    \/ MsgCall
    \/ CallStep

MsgSpec == MsgInit /\ [][MsgNext]_vars

\* the goal the k-th scheduled reminder was drawn for
chosenGoal(k) == calls[scheduled[k].by].goals[scheduled[k].goal]

\* C20 as stated: the body is the generic string for an empty goal list, the
\* chosen goal's custom action text when its category has no template or an
\* empty pool, and a member of the category's pool otherwise.
C20_MessageSelection_Original ==
    \A k \in 1..Len(scheduled) :
        IF Len(calls[scheduled[k].by].goals) = 0 THEN scheduled[k].body = GenericReminder
        ELSE IF noPool(templates, chosenGoal(k))
             THEN scheduled[k].body = chosenGoal(k).customAction
             ELSE \E m \in 1..Len(templates[chosenGoal(k).category].reminders) :
                      scheduled[k].body = templates[chosenGoal(k).category].reminders[m]

\* C20 (amended): as stated, except that with no template or an empty pool the
\* body is the chosen goal's custom action text when that text is non-empty and
\* the fixed string standing in for it when the text is empty.
C20_MessageSelection ==
    \A k \in 1..Len(scheduled) :
        IF Len(calls[scheduled[k].by].goals) = 0 THEN scheduled[k].body = GenericReminder
        ELSE IF noPool(templates, chosenGoal(k))
             THEN scheduled[k].body =
                     IF chosenGoal(k).customAction # "" THEN chosenGoal(k).customAction
                     ELSE FallbackAction
             ELSE \E m \in 1..Len(templates[chosenGoal(k).category].reminders) :
                      scheduled[k].body = templates[chosenGoal(k).category].reminders[m]

\* C20 witness: one finished call whose two reminders were drawn independently:
\* one for a goal without template and with an empty action text, one from the
\* pool of another goal's category
C20_Witness ==
    /\ started = 1
    /\ calls[1].pc = "done"
    /\ Len(scheduled) = 2
    /\ scheduled[1].goal # scheduled[2].goal
    /\ noPool(templates, chosenGoal(1))
    /\ chosenGoal(1).customAction = ""
    /\ scheduled[1].body = FallbackAction
    /\ ~noPool(templates, chosenGoal(2))
    /\ scheduled[2].body = "reminder"


(***************************************************************************)
(* One screen at a time: the app is installed with some stored value, it   *)
(* starts and loads, and the user works with the handlers of one screen.   *)
(* The collaborators' answers change neither state nor ui and are left     *)
(* out of these runs.                                                      *)
(***************************************************************************)
\* the app as installed, before its first render, with one of raws stored
Installed(raws) ==
    /\ version = "hooks"
    /\ templates = plainCatalog
    /\ permission = "granted"
    /\ scheduled = <<>>
    /\ calls = NoCalls
    /\ started = 0
    /\ state = defaultState
    /\ loaded = FALSE
    /\ bootPc = "start"
    /\ storage \in raws
    /\ pendingWrites = <<>>
    /\ saved = defaultState
    /\ loadCalls = 0
    /\ saveCalls = 0
    /\ now = 0
    /\ today = 1
    /\ ui = initialUi

\* first render and bootstrap
Startup ==
    \/ Mount
    \/ BootstrapResolve

(***************************************************************************)
(* Settings: the reminder window and the timesPerDay counter               *)
(***************************************************************************)
\* stored reminder settings: hours that are any integers, counters in range
WindowSettings ==
    [enabled : {FALSE}, timesPerDay : {1, MaxSlots},
     startHour : (0 - HourSlack)..(LastHour + HourSlack),
     endHour : (0 - HourSlack)..(LastHour + HourSlack)]

WindowInit ==
    Installed({[kind |-> "null"]}
              \cup {JSONstringify([reminderSettings |-> rs]) : rs \in WindowSettings})

WindowNext ==
    \/ Startup
    \/ /\ now < MaxEdits
       /\ \/ \E field \in {"startHour", "endHour"}, delta \in {-1, 1} :
                updateReminderWindow(field, delta)
          \/ timesPerDayMinus
          \/ timesPerDayPlus

WindowSpec == WindowInit /\ [][WindowNext]_vars

\* 0 <= startHour < endHour <= 23
windowInRange(rs) ==
    /\ 0 <= rs.startHour
    /\ rs.startHour < rs.endHour
    /\ rs.endHour <= LastHour

\* C21: after any updateReminderWindow(field, +1/-1), from the default state or
\* from a loaded state with any integers as window hours, the window satisfies
\* 0 <= startHour < endHour <= 23; and the timesPerDay buttons keep
\* timesPerDay in 1..8.
C21_WindowInvariantUnderEdits ==
    [][/\ (\E field \in {"startHour", "endHour"}, delta \in {-1, 1} :
              updateReminderWindow(field, delta))
          => windowInRange(state'.reminderSettings)
       /\ (timesPerDayMinus \/ timesPerDayPlus)
          => state'.reminderSettings.timesPerDay \in 1..MaxSlots]_vars


(***************************************************************************)
(* Goals: selection and the action text                                    *)
(***************************************************************************)
\* the categories the user works with, and the texts typed
GoalChoices == {"calmness", "focus", "kindness"}
ActionTexts == {"", "walk"}

\* stored goal lists with at most one goal per category
StoredGoals ==
    {<<>>,
     <<createGoal("calmness", 0)>>,
     <<[createGoal("focus", 0) EXCEPT !.isActive = FALSE], createGoal("calmness", 0)>>}

GoalInit == Installed({JSONstringify([goals |-> goals]) : goals \in StoredGoals})

GoalNext ==
    \/ Startup
    \/ /\ now < MaxEdits
       /\ \/ \E category \in GoalChoices : toggleGoal(category)
          \/ \E category \in GoalChoices, text \in ActionTexts : updateGoalAction(category, text)

GoalSpec == GoalInit /\ [][GoalNext]_vars

\* the goals of a list that are of / not of a category
ofCategory(goals, category) == SelectSeq(goals, LAMBDA goal : goal.category = category)
notOfCategory(goals, category) == SelectSeq(goals, LAMBDA goal : goal.category # category)

onePerCategory(goals) == \A category \in GoalCategory : Len(ofCategory(goals, category)) <= 1

\* C22: the goal list holds at most one goal per category; toggleGoal(c) adds
\* a goal of c when none exists and removes it when one exists, leaving the
\* goals of other categories as they were; updateGoalAction(c, text) sets the
\* customAction of the goal of c and changes no goal's id, category or
\* isActive and no other goal's customAction.
C22_GoalLifecycle ==
    /\ [](onePerCategory(state.goals))
    /\ [][\A c \in GoalChoices :
            /\ toggleGoal(c) =>
                  /\ notOfCategory(state'.goals, c) = notOfCategory(state.goals, c)
                  /\ Len(ofCategory(state'.goals, c)) = 1 - Len(ofCategory(state.goals, c))
                  /\ \A k \in 1..Len(state'.goals) : state'.goals[k].category = c =>
                        /\ k = Len(state'.goals)
                        /\ state'.goals[k].isActive
            /\ \A text \in ActionTexts : updateGoalAction(c, text) =>
                  /\ Len(state'.goals) = Len(state.goals)
                  /\ \A k \in 1..Len(state.goals) :
                        /\ state'.goals[k].id = state.goals[k].id
                        /\ state'.goals[k].category = state.goals[k].category
                        /\ state'.goals[k].isActive = state.goals[k].isActive
                        /\ state'.goals[k].customAction =
                              IF state.goals[k].category = c THEN text
                              ELSE state.goals[k].customAction]_vars

\* C22 witness: a goal was added next to a stored one and a goal's text edited
C22_Witness ==
    /\ now = 2
    /\ Len(state.goals) = 2
    /\ \E k \in 1..2 : state.goals[k].customAction = "walk"
    /\ \E k \in 1..2 : state.goals[k].id[2] > 0


(***************************************************************************)
(* Home: the daily check-in                                                *)
(***************************************************************************)
SCORE_OPTIONS == 1..5

\* stored check-in lists with at most one entry per date
StoredCheckins ==
    {<<>>,
     <<[date |-> "2024-01-02", score |-> 2, note |-> "ok"]>>,
     <<[date |-> "2024-01-03", score |-> 5, note |-> ""],
       [date |-> "2024-01-01", score |-> 4, note |-> "ok"]>>}

CheckinInit == Installed({JSONstringify([checkins |-> checkins]) : checkins \in StoredCheckins})

CheckinNext ==
    \/ Startup
    \/ \E score \in SCORE_OPTIONS : setCheckinScore(score)
    \/ \E text \in {" ok "} : setCheckinNote(text)
    \/ now < MaxEdits /\ saveTodayCheckin
    \/ NewDay

CheckinSpec == CheckinInit /\ [][CheckinNext]_vars

\* the positions of a list that hold an entry of a date
datePositions(checkins, date) == {k \in 1..Len(checkins) : checkins[k].date = date}

oneEntryPerDate(checkins) ==
    \A k \in 1..Len(checkins) : Cardinality(datePositions(checkins, checkins[k].date)) = 1

\* C23: the checkins list has at most one entry per date; saving on a date
\* that has an entry replaces that entry in place, saving on a date without
\* one appends it, every other date's entry stays as it was, and the saved
\* score is one of 1..5.
C23_CheckinsKeyedByDate ==
    /\ [](oneEntryPerDate(state.checkins))
    /\ [][(saveTodayCheckin /\ ui.checkinScore # 0) =>
            LET before == state.checkins
                after == state'.checkins
                date == todayKey(today)
                at == datePositions(after, date)
            IN /\ Cardinality(at) = 1
               /\ \A k \in at : after[k].score \in SCORE_OPTIONS
               /\ IF datePositions(before, date) = {}
                  THEN Len(after) = Len(before) + 1 /\ at = {Len(after)}
                  ELSE Len(after) = Len(before) /\ at = datePositions(before, date)
               /\ \A k \in 1..Len(before) : k \notin at => after[k] = before[k]]_vars

\* C23 witness: an entry of an earlier day replaced in place, with other
\* dates' entries before and after it in the list
C23_Witness ==
    /\ now = 2
    /\ Len(state.checkins) = 3
    /\ state.checkins[1].date = "2024-01-03"
    /\ state.checkins[1].score = 1
    /\ state.checkins[3].date = "2024-01-02"


(***************************************************************************)
(* Settings: a block's tasks and the task wizard                           *)
(***************************************************************************)
\* cloneTaskReminders: a copy with the fields of the config's mode
cloneTaskReminders(reminders) ==
    IF reminders.config.mode = "fixed"
    THEN [enabled |-> reminders.enabled,
          config |-> [mode |-> "fixed", weekdays |-> reminders.config.weekdays,
                      times |-> reminders.config.times]]
    ELSE [enabled |-> reminders.enabled,
          config |-> [mode |-> "random", weekdays |-> reminders.config.weekdays,
                      startHour |-> reminders.config.startHour,
                      endHour |-> reminders.config.endHour,
                      timesInWindow |-> reminders.config.timesInWindow]]

\* isTaskReminderValid with the weekday test left out
isTaskReminderValid_anyWeekdays(reminders) ==
    IF ~reminders.enabled THEN TRUE
    ELSE IF reminders.config.mode = "fixed" THEN Len(reminders.config.times) > 0
    ELSE reminders.config.endHour > reminders.config.startHour

isTaskReminderValid(reminders) ==
    IF ~reminders.enabled THEN TRUE
    ELSE IF Len(reminders.config.weekdays) = 0 THEN FALSE
    ELSE IF reminders.config.mode = "fixed" THEN Len(reminders.config.times) > 0
    ELSE reminders.config.endHour > reminders.config.startHour

\* state.settingsBlocks.find(block => block.id === settingsSection) exists
hasBlock(st, blockId) == \E k \in 1..Len(st.settingsBlocks) : st.settingsBlocks[k].id = blockId

\* a block card pressed on the settings home list.  The block screen reads
\* state.sectionTasks[id]: without a sectionTasks field its render throws and
\* the app goes no further, so the handler is taken only with the field
openBlock(blockId) ==
    /\ ui.activeTab = "settings" /\ ui.settingsSection = "" /\ ~ui.isTaskModalVisible
    /\ hasBlock(state, blockId)
    /\ "sectionTasks" \in DOMAIN state
    /\ ~ui.isReorderMode
    /\ SetUi([ui EXCEPT !.settingsSection = blockId])

\* the fields closeTaskWizard sets
closedWizard(u) ==
    [u EXCEPT !.isTaskModalVisible = FALSE, !.taskBlockId = "", !.taskWizardStep = 1,
              !.taskDraft = createTaskDraft, !.fixedTimeInput = <<>>]

\* "+ add task" on a block's screen
openTaskWizard ==
    /\ ui.activeTab = "settings" /\ ui.settingsSection # "" /\ ~ui.isTaskModalVisible
    /\ hasBlock(state, ui.settingsSection)
    /\ SetUi([ui EXCEPT !.taskBlockId = ui.settingsSection, !.taskDraft = createTaskDraft,
                        !.taskWizardStep = 1, !.fixedTimeInput = <<>>,
                        !.isTaskModalVisible = TRUE])

\* the modal dismissed, or the left button at step 1
closeTaskWizard ==
    /\ ui.isTaskModalVisible
    /\ SetUi(closedWizard(ui))

\* the text inputs of steps 1..3, each rendered at its own step only
setTaskTitle(text) ==
    /\ ui.isTaskModalVisible /\ ui.taskWizardStep = 1
    /\ SetUi([ui EXCEPT !.taskDraft.title = text])

setTaskDescription(text) ==
    /\ ui.isTaskModalVisible /\ ui.taskWizardStep = 2
    /\ SetUi([ui EXCEPT !.taskDraft.description = text])

setTaskMotivation(text) ==
    /\ ui.isTaskModalVisible /\ ui.taskWizardStep = 3
    /\ SetUi([ui EXCEPT !.taskDraft.motivation = text])

canProceedTaskStep(u) ==
    IF u.taskWizardStep = 1 THEN trim(u.taskDraft.title) # ""
    ELSE IF u.taskWizardStep = 2 THEN trim(u.taskDraft.description) # ""
    ELSE IF u.taskWizardStep = 3 THEN trim(u.taskDraft.motivation) # ""
    ELSE isTaskReminderValid(u.taskDraft.reminders)

\* the task nextTaskWizardStep builds at step 4
newTask ==
    [id |-> <<"task", now>>,
     title |-> trim(ui.taskDraft.title),
     description |-> trim(ui.taskDraft.description),
     motivation |-> trim(ui.taskDraft.motivation),
     motivationImageUri |-> trim(ui.taskDraft.motivationImageUri),
     reminders |-> cloneTaskReminders(ui.taskDraft.reminders)]

\* prev.sectionTasks[blockId] ?? []
tasksOf(st, blockId) ==
    IF blockId \in DOMAIN st.sectionTasks THEN st.sectionTasks[blockId] ELSE <<>>

\* the right button of the wizard: an alert when the step's field is not
\* valid; at step 4 the task is appended and the wizard closed; otherwise the
\* next step
nextTaskWizardStep ==
    /\ ui.isTaskModalVisible
    /\ IF ~canProceedTaskStep(ui) THEN UNCHANGED vars
       ELSE IF ui.taskWizardStep = 4
       THEN IF ui.taskBlockId = "" THEN UNCHANGED vars
            ELSE Update(spread(state,
                               [sectionTasks |->
                                   spread(state.sectionTasks,
                                          [b \in {ui.taskBlockId} |->
                                              Append(tasksOf(state, ui.taskBlockId), newTask)])]),
                        {"sectionTasks"}, closedWizard(ui))
       ELSE SetUi([ui EXCEPT !.taskWizardStep = IF @ = 4 THEN 4 ELSE @ + 1])

\* the left button of the wizard at steps 2..4
prevTaskWizardStep ==
    /\ ui.isTaskModalVisible /\ ui.taskWizardStep # 1
    /\ SetUi([ui EXCEPT !.taskWizardStep = IF @ = 1 THEN 1 ELSE @ - 1])


(***************************************************************************)
(* The wizard's step 4: the draft's reminder settings                      *)
(***************************************************************************)
\* step 4 is shown; its controls below the switch are rendered while the
\* draft's reminders are enabled
atStep4 == ui.isTaskModalVisible /\ ui.taskWizardStep = 4
atStep4Enabled == atStep4 /\ ui.taskDraft.reminders.enabled

\* setTaskDraft(prev => ({...prev, reminders: {...prev.reminders, config}}))
setConfig(config) == SetUi([ui EXCEPT !.taskDraft.reminders.config = config])

\* Switch onValueChange
setTaskRemindersEnabled(enabled) ==
    /\ atStep4
    /\ SetUi([ui EXCEPT !.taskDraft.reminders.enabled = enabled])

toggleReminderWeekday(day) ==
    LET list == ui.taskDraft.reminders.config.weekdays
        exists == \E k \in 1..Len(list) : list[k] = day
    IN /\ atStep4Enabled
       /\ setConfig([ui.taskDraft.reminders.config EXCEPT !.weekdays =
                        IF exists THEN SelectSeq(list, LAMBDA item : item # day)
                        ELSE Append(list, day)])

switchReminderMode(mode) ==
    LET config == ui.taskDraft.reminders.config
    IN /\ atStep4Enabled
       /\ setConfig(IF mode = "fixed"
                    THEN [mode |-> "fixed", weekdays |-> config.weekdays,
                          times |-> IF config.mode = "fixed" THEN config.times ELSE <<>>]
                    ELSE [mode |-> "random", weekdays |-> config.weekdays,
                          startHour |-> IF config.mode = "random" THEN config.startHour ELSE 9,
                          endHour |-> IF config.mode = "random" THEN config.endHour ELSE 21,
                          timesInWindow |-> IF config.mode = "random" THEN config.timesInWindow
                                            ELSE 3])

\* the window start buttons without the repair of endHour
windowStartButton_keepEnd(delta) ==
    LET config == ui.taskDraft.reminders.config
    IN /\ atStep4Enabled
       /\ IF config.mode # "random" THEN SetUi(ui)
          ELSE setConfig([config EXCEPT !.startHour = clamp(config.startHour + delta, 0, 22)])

\* the window start -/+ buttons (delta -1 / +1)
windowStartButton(delta) ==
    LET config == ui.taskDraft.reminders.config
    IN /\ atStep4Enabled
       /\ IF config.mode # "random" THEN SetUi(ui)
          ELSE LET start == clamp(config.startHour + delta, 0, 22)
                   end == Max(config.endHour, start + 1)
               IN setConfig([config EXCEPT !.startHour = start, !.endHour = end])

\* the window end -/+ buttons (delta -1 / +1)
windowEndButton(delta) ==
    LET config == ui.taskDraft.reminders.config
    IN /\ atStep4Enabled
       /\ IF config.mode # "random" THEN SetUi(ui)
          ELSE LET end == clamp(config.endHour + delta, 1, 23)
                   start == Min(config.startHour, end - 1)
               IN setConfig([config EXCEPT !.startHour = start, !.endHour = end])

\* the largest timesInWindow the + button gives
MaxTimesInWindow == 12

timesInWindowMinus ==
    LET config == ui.taskDraft.reminders.config
    IN /\ atStep4Enabled
       /\ IF config.mode # "random" THEN SetUi(ui)
          ELSE setConfig([config EXCEPT !.timesInWindow = Max(1, @ - 1)])

timesInWindowPlus ==
    LET config == ui.taskDraft.reminders.config
    IN /\ atStep4Enabled
       /\ IF config.mode # "random" THEN SetUi(ui)
          ELSE setConfig([config EXCEPT !.timesInWindow = Min(MaxTimesInWindow, @ + 1)])


(***************************************************************************)
(* Fixed times: a time text is the sequence of its characters              *)
(***************************************************************************)
Digits == <<"0", "1", "2", "3", "4", "5", "6", "7", "8", "9">>

\* the characters the runs type, in code unit order
Chars == <<" ">> \o Digits \o <<":", "a">>

charCode(ch) == CHOOSE n \in 1..Len(Chars) : Chars[n] = ch
isDigit(ch) == \E n \in 1..10 : Digits[n] = ch
digitValue(ch) == (CHOOSE n \in 1..10 : Digits[n] = ch) - 1

\* String.prototype.trim
RECURSIVE trimStart(_)
trimStart(text) ==
    IF Len(text) > 0 /\ Head(text) = " " THEN trimStart(Tail(text)) ELSE text

RECURSIVE trimEnd(_)
trimEnd(text) ==
    IF Len(text) > 0 /\ text[Len(text)] = " " THEN trimEnd(SubSeq(text, 1, Len(text) - 1))
    ELSE text

trimText(text) == trimEnd(trimStart(text))

\* /^(\d{1,2}):(\d{2})$/
matchesTime(text) ==
    /\ Len(text) \in {4, 5}
    /\ text[Len(text) - 2] = ":"
    /\ \A k \in 1..Len(text) : k # Len(text) - 2 => isDigit(text[k])

\* Number() of a text of digits
RECURSIVE Number(_)
Number(text) ==
    IF Len(text) = 0 THEN 0
    ELSE 10 * Number(SubSeq(text, 1, Len(text) - 1)) + digitValue(text[Len(text)])

\* String(n).padStart(2, '0') for n in 0..99
pad2(n) == <<Digits[(n \div 10) + 1], Digits[(n % 10) + 1]>>

\* normalizeTimeValue: the normalized HH:MM text, or the empty text for null
normalizeTimeValue(value) ==
    LET text == trimText(value)
    IN IF ~matchesTime(text) THEN <<>>
       ELSE LET h == Number(SubSeq(text, 1, Len(text) - 3))
                m == Number(SubSeq(text, Len(text) - 1, Len(text)))
            IN IF h < 0 \/ h > LastHour \/ m < 0 \/ m > LastMinute THEN <<>>
               ELSE pad2(h) \o <<":">> \o pad2(m)

\* a < b in the order of Array.prototype.sort without a comparator
RECURSIVE textBefore(_, _)
textBefore(a, b) ==
    IF Len(b) = 0 THEN FALSE
    ELSE IF Len(a) = 0 THEN TRUE
    ELSE IF Head(a) # Head(b) THEN charCode(Head(a)) < charCode(Head(b))
    ELSE textBefore(Tail(a), Tail(b))

\* [...list].sort()
RECURSIVE sort(_)
sort(list) ==
    IF Len(list) = 0 THEN <<>>
    ELSE LET k == CHOOSE i \in 1..Len(list) :
                      \A j \in 1..Len(list) : ~textBefore(list[j], list[i])
         IN <<list[k]>> \o sort(SubSeq(list, 1, k - 1) \o SubSeq(list, k + 1, Len(list)))

includes(list, item) == \E k \in 1..Len(list) : list[k] = item

\* onChangeText of the time input
setFixedTimeInput(text) ==
    /\ atStep4Enabled /\ ui.taskDraft.reminders.config.mode = "fixed"
    /\ SetUi([ui EXCEPT !.fixedTimeInput = text])

\* addFixedTime that appends without sorting
addFixedTime_unsorted ==
    LET normalized == normalizeTimeValue(ui.fixedTimeInput)
        config == ui.taskDraft.reminders.config
    IN /\ atStep4Enabled
       /\ IF normalized = <<>> THEN UNCHANGED vars
          ELSE IF config.mode # "fixed" \/ includes(config.times, normalized)
          THEN SetUi([ui EXCEPT !.fixedTimeInput = <<>>])
          ELSE SetUi([ui EXCEPT !.fixedTimeInput = <<>>,
                                !.taskDraft.reminders.config.times = Append(@, normalized)])

\* addFixedTime: an alert for a text that is no time; otherwise the time joins
\* the sorted list unless the draft is not in fixed mode or holds it already,
\* and the input is cleared
addFixedTime ==
    LET normalized == normalizeTimeValue(ui.fixedTimeInput)
        config == ui.taskDraft.reminders.config
    IN /\ atStep4Enabled
       /\ IF normalized = <<>> THEN UNCHANGED vars
          ELSE IF config.mode # "fixed" \/ includes(config.times, normalized)
          THEN SetUi([ui EXCEPT !.fixedTimeInput = <<>>])
          ELSE SetUi([ui EXCEPT !.fixedTimeInput = <<>>,
                                !.taskDraft.reminders.config.times =
                                    sort(Append(@, normalized))])

\* a time chip pressed
removeFixedTime(time) ==
    LET config == ui.taskDraft.reminders.config
    IN /\ atStep4Enabled
       /\ IF config.mode # "fixed" THEN SetUi(ui)
          ELSE setConfig([config EXCEPT !.times = SelectSeq(@, LAMBDA item : item # time)])


(***************************************************************************)
(* The task wizard, from a block's screen to the created task              *)
(***************************************************************************)
\* a profile that has finished onboarding
onboarded == [name |-> "Al", onboardingCompleted |-> TRUE, isPremium |-> FALSE]

WizardInit ==
    Installed({JSONstringify([profile |-> onboarded, sectionTasks |-> EmptyObject])})

\* the texts typed into the wizard's inputs: blank and not blank
WizardTexts == {" ", " ok "}

\* the time typed into the time input
WizardTime == <<"9", ":", "3", "0">>

\* the user deselects the selected days from the first one on
firstWeekday == {ui.taskDraft.reminders.config.weekdays[k] : k \in {1} \cap DOMAIN ui.taskDraft.reminders.config.weekdays}

WizardNext ==
    \/ Startup
    \/ openBlock("habits")
    \/ openTaskWizard
    \/ closeTaskWizard
    \/ \E text \in WizardTexts : setTaskTitle(text)
    \/ \E text \in {" ok "} : setTaskDescription(text)
    \/ \E text \in {"ok"} : setTaskMotivation(text)
    \/ (ui.taskWizardStep = 4 => now < MaxTasks) /\ nextTaskWizardStep
    \/ prevTaskWizardStep
    \/ \E enabled \in BOOLEAN \ {ui.taskDraft.reminders.enabled} : setTaskRemindersEnabled(enabled)
    \/ \E day \in firstWeekday : toggleReminderWeekday(day)
    \/ \E mode \in {"fixed", "random"} : switchReminderMode(mode)
    \/ setFixedTimeInput(WizardTime)
    \/ addFixedTime

WizardSpec == WizardInit /\ [][WizardNext]_vars

\* the tasks of a block in a state that may lack sectionTasks
blockTasks(st, blockId) ==
    IF "sectionTasks" \in DOMAIN st /\ blockId \in DOMAIN st.sectionTasks
    THEN st.sectionTasks[blockId] ELSE <<>>

blockIds(st) == IF "sectionTasks" \in DOMAIN st THEN DOMAIN st.sectionTasks ELSE {}

\* the field of the step shown is valid
stepFieldValid(u) ==
    /\ u.taskWizardStep = 1 => trim(u.taskDraft.title) # ""
    /\ u.taskWizardStep = 2 => trim(u.taskDraft.description) # ""
    /\ u.taskWizardStep = 3 => trim(u.taskDraft.motivation) # ""
    /\ u.taskWizardStep = 4 =>
          LET r == u.taskDraft.reminders
          IN r.enabled =>
                /\ Len(r.config.weekdays) >= 1
                /\ \/ r.config.mode = "fixed" /\ Len(r.config.times) >= 1
                   \/ r.config.mode = "random" /\ r.config.endHour > r.config.startHour

\* a task with non-empty trimmed texts and valid reminder settings
wellFormedTask(task) ==
    /\ task.title # "" /\ trim(task.title) = task.title
    /\ task.description # "" /\ trim(task.description) = task.description
    /\ task.motivation # "" /\ trim(task.motivation) = task.motivation
    /\ task.reminders.enabled =>
          /\ Len(task.reminders.config.weekdays) >= 1
          /\ \/ /\ task.reminders.config.mode = "fixed"
                /\ Len(task.reminders.config.times) >= 1
             \/ /\ task.reminders.config.mode = "random"
                /\ task.reminders.config.endHour > task.reminders.config.startHour

\* C24: the wizard step stays in 1..4; the step advances only by one and only
\* when the field of the current step is valid; the tasks of a block change
\* only by next at step 4, which appends one task with non-empty trimmed
\* title, description and motivation and valid reminder settings.
C24_TaskWizardProtocol ==
    /\ [](ui.taskWizardStep \in 1..4)
    /\ [][/\ ui'.taskWizardStep > ui.taskWizardStep =>
               /\ ui'.taskWizardStep = ui.taskWizardStep + 1
               /\ stepFieldValid(ui)
          /\ \A b \in blockIds(state') :
                blockTasks(state', b) # blockTasks(state, b) =>
                   /\ ui.isTaskModalVisible /\ ui.taskWizardStep = 4 /\ stepFieldValid(ui)
                   /\ nextTaskWizardStep
                   /\ Len(blockTasks(state', b)) = Len(blockTasks(state, b)) + 1
                   /\ SubSeq(blockTasks(state', b), 1, Len(blockTasks(state, b)))
                         = blockTasks(state, b)
                   /\ wellFormedTask(blockTasks(state', b)[Len(blockTasks(state', b))])]_vars

\* C24 witness: a task created with fixed-time reminders after its time was typed
C24_Witness ==
    /\ Len(blockTasks(state, "habits")) = 1
    /\ blockTasks(state, "habits")[1].title = "ok"
    /\ blockTasks(state, "habits")[1].reminders.enabled
    /\ blockTasks(state, "habits")[1].reminders.config.mode = "fixed"
    /\ blockTasks(state, "habits")[1].reminders.config.times = <<<<"0", "9", ":", "3", "0">>>>
    /\ ~ui.isTaskModalVisible

(***************************************************************************)
(* Navigation, the history screen and the premium screen                   *)
(***************************************************************************)
\* the main screens are rendered once onboarding is completed
mainRendered == loaded /\ state.profile.onboardingCompleted /\ ~ui.isTaskModalVisible

\* the places selectMenuItem is called from: the profile button of the top
\* bar, the entries of the profile menu, "continue free" on the premium screen
menuOffers(tab) ==
    \/ tab = "profile"
    \/ ui.activeTab = "profile" /\ tab \in {"settings", "home", "history", "premium"}
    \/ ui.activeTab = "premium" /\ tab = "settings"

\* the values selectMenuItem sets
menuItemSelected(u, tab) ==
    IF tab = "settings"
    THEN [u EXCEPT !.activeTab = tab, !.settingsSection = ""]
    ELSE [u EXCEPT !.activeTab = tab, !.isReorderMode = FALSE, !.draftBlocks = <<>>,
                   !.draggingBlockId = "", !.draggingBlockRef = ""]

selectMenuItem(tab) ==
    /\ mainRendered
    /\ menuOffers(tab)
    /\ SetUi(menuItemSelected(ui, tab))

HISTORY_RANGES == <<7, 14, 30>>

\* a range button of the history screen: a locked one opens the paywall
rangeButton(range) ==
    /\ mainRendered
    /\ ui.activeTab = "history"
    /\ LET locked == ~state.profile.isPremium /\ range > 7
       IN IF locked
          THEN SetUi(menuItemSelected(ui, "premium"))
          ELSE SetUi([ui EXCEPT !.historyRange = range])

\* the demo button of the premium screen
onTogglePremium ==
    /\ mainRendered
    /\ ui.activeTab = "premium"
    /\ Commit([state EXCEPT !.profile.isPremium = ~state.profile.isPremium], {"profile"})

\* the range historyData is computed over
historyShown == ui.historyRange

\* the premium toggles of one run
MaxToggles == 3

HistoryInit ==
    Installed({JSONstringify([profile |-> onboarded]),
               JSONstringify([profile |-> [onboarded EXCEPT !.isPremium = TRUE]])})

HistoryNext ==
    \/ Startup
    \/ \E tab \in {"profile", "settings", "home", "history", "premium"} : selectMenuItem(tab)
    \/ \E k \in DOMAIN HISTORY_RANGES : rangeButton(HISTORY_RANGES[k])
    \/ now < MaxToggles /\ onTogglePremium

HistorySpec == HistoryInit /\ [][HistoryNext]_vars

\* C25: in every reachable state where profile.isPremium is false the selected
\* history range is 7 days.
C25_HistoryPaywall == ~state.profile.isPremium => historyShown = 7

(***************************************************************************)
(* Settings home: reordering the block cards                               *)
(***************************************************************************)
\* the index Array.prototype.splice starts at, for a list of n items
spliceStart(n, index) == IF index < 0 THEN Max(n + index, 0) ELSE Min(index, n)

\* next.splice(start, deleteCount): the list that is left
spliceOut(items, index) ==
    LET start == spliceStart(Len(items), index)
    IN [k \in 1..(IF start < Len(items) THEN Len(items) - 1 ELSE Len(items)) |->
           IF k <= start THEN items[k] ELSE items[k + 1]]

\* next.splice(start, 0, item)
spliceIn(items, index, item) ==
    LET start == spliceStart(Len(items), index)
    IN [k \in 1..(Len(items) + 1) |->
           IF k <= start THEN items[k] ELSE IF k = start + 1 THEN item ELSE items[k - 1]]

\* moveItem that puts the moved item back without taking it out
moveItem_copy(items, from, to) ==
    IF spliceStart(Len(items), from) >= Len(items) THEN items
    ELSE spliceIn(items, to, items[spliceStart(Len(items), from) + 1])

\* indexes count from 0 as in the source
moveItem(items, from, to) ==
    IF spliceStart(Len(items), from) >= Len(items) THEN items
    ELSE spliceIn(spliceOut(items, from), to, items[spliceStart(Len(items), from) + 1])

\* items.findIndex(block => block.id === blockId)
findIndex(items, blockId) ==
    IF \E k \in 1..Len(items) : items[k].id = blockId
    THEN (CHOOSE k \in 1..Len(items) :
             /\ items[k].id = blockId
             /\ \A j \in 1..(k - 1) : items[j].id # blockId) - 1
    ELSE -1

visibleSettingsBlocks == IF ui.isReorderMode THEN ui.draftBlocks ELSE state.settingsBlocks

\* the settings home list is on screen and no modal covers it
settingsHome ==
    /\ mainRendered
    /\ ui.activeTab = "settings" /\ ui.settingsSection = ""
    /\ ui.activeMenuBlockId = "" /\ ~ui.isAddModalVisible /\ ~ui.isNewBlockModalVisible

\* the card of blockId is shown and not disabled
cardEnabled(blockId) ==
    /\ settingsHome
    /\ findIndex(visibleSettingsBlocks, blockId) # -1
    /\ ~(ui.draggingBlockId # "" /\ ui.draggingBlockId # blockId)

\* the values finishDrag sets
dragFinished(u) ==
    IF u.draggingBlockRef = "" THEN u
    ELSE LET finalBlocks == moveItem(u.dragBaseBlocksRef, u.dragOriginIndexRef, u.dragTargetIndexRef)
         IN [u EXCEPT !.dragBaseBlocksRef = finalBlocks, !.draftBlocks = finalBlocks,
                      !.draggingBlockId = "", !.draggingBlockRef = ""]

finishDrag == settingsHome /\ SetUi(dragFinished(ui))

startReorderForBlock(blockId) ==
    LET source == IF ui.isReorderMode THEN ui.draftBlocks ELSE state.settingsBlocks
        startIndex == findIndex(source, blockId)
    IN IF startIndex = -1 THEN SetUi(ui)
       ELSE SetUi([ui EXCEPT !.isReorderMode = TRUE,
                             !.draftBlocks = IF ui.isReorderMode THEN @ ELSE source,
                             !.dragBaseBlocksRef = source,
                             !.dragOriginIndexRef = startIndex,
                             !.dragTargetIndexRef = startIndex,
                             !.dragOriginIndex = startIndex,
                             !.draggingBlockId = blockId,
                             !.draggingBlockRef = blockId])

\* onLongPress of a card
longPress(blockId) ==
    /\ cardEnabled(blockId)
    /\ ~ui.isReorderMode
    /\ startReorderForBlock(blockId)

\* onPressIn of a card
startDragFromPress(blockId) ==
    /\ cardEnabled(blockId)
    /\ ui.isReorderMode /\ ui.draggingBlockId # blockId
    /\ startReorderForBlock(blockId)

\* onPressOut of a card
pressOut(blockId) ==
    /\ cardEnabled(blockId)
    /\ ui.draggingBlockId = blockId
    /\ finishDrag

\* onPanResponderMove with Math.round(gestureState.dy / SETTINGS_CARD_STEP) = cards
onPanResponderMove(cards) ==
    /\ settingsHome
    /\ ui.draggingBlockRef # "" /\ Len(ui.dragBaseBlocksRef) > 1
    /\ LET nextIndex == clamp(ui.dragOriginIndexRef + cards, 0, Len(ui.dragBaseBlocksRef) - 1)
       IN /\ nextIndex # ui.dragTargetIndexRef
          /\ SetUi([ui EXCEPT !.dragTargetIndexRef = nextIndex,
                              !.draftBlocks = moveItem(ui.dragBaseBlocksRef,
                                                       ui.dragOriginIndexRef, nextIndex)])

\* the check mark button.  finishDrag, when it runs, sets draftBlocks first;
\* the handler's own setDraftBlocks([]) comes after it in the same batch, and
\* the state update reads the draftBlocks of the render the button was in
applyReorder ==
    /\ settingsHome
    /\ ui.isReorderMode
    /\ Update([state EXCEPT !.settingsBlocks =
                  IF Len(ui.draftBlocks) > 0 THEN ui.draftBlocks ELSE state.settingsBlocks],
              {"settingsBlocks"},
              [dragFinished(ui) EXCEPT !.isReorderMode = FALSE, !.draftBlocks = <<>>,
                                       !.draggingBlockId = "", !.draggingBlockRef = ""])

\* the block lists an earlier run has stored
ReorderBlocks ==
    {SubSeq(defaultState.settingsBlocks, 1, 1), SubSeq(defaultState.settingsBlocks, 1, 3)}

ReorderInit ==
    Installed({JSONstringify([profile |-> onboarded, settingsBlocks |-> blocks]) :
                  blocks \in ReorderBlocks})

\* the drag distances of a gesture, in cards
DragCards == {-2, -1, 0, 1, 2}

ReorderNext ==
    \/ Startup
    \/ \E blockId \in {"traits", "emotions", "habits"} :
          \/ longPress(blockId)
          \/ startDragFromPress(blockId)
          \/ pressOut(blockId)
    \/ \E cards \in DragCards : onPanResponderMove(cards)
    \/ finishDrag
    \/ now < MaxEdits /\ applyReorder
    \/ \E tab \in {"profile", "settings"} : selectMenuItem(tab)

ReorderSpec == ReorderInit /\ [][ReorderNext]_vars

\* b holds the items of a, each as often as a does
isPermutation(a, b) ==
    /\ Len(a) = Len(b)
    /\ \E f \in [1..Len(a) -> 1..Len(a)] :
          /\ \A i, j \in 1..Len(a) : f[i] = f[j] => i = j
          /\ \A i \in 1..Len(a) : b[i] = a[f[i]]

\* C26: in reorder mode the draft is a permutation of settingsBlocks, and no
\* step taken in reorder mode (applyReorder among them) makes settingsBlocks
\* anything but a permutation of what it was, so the list applied is a
\* permutation of the one reorder mode was entered with; a step that leaves the
\* settings tab in reorder mode ends the mode, empties the draft and leaves
\* settingsBlocks unchanged.
C26_ReorderPreservesBlocks ==
    /\ [](ui.isReorderMode => isPermutation(state.settingsBlocks, ui.draftBlocks))
    /\ [][/\ ui.isReorderMode => isPermutation(state.settingsBlocks, state'.settingsBlocks)
          /\ ui.isReorderMode /\ ui'.activeTab # "settings" =>
                /\ ~ui'.isReorderMode
                /\ ui'.draftBlocks = <<>>
                /\ state'.settingsBlocks = state.settingsBlocks]_vars

\* C26 witness: a reordered list has been applied
C26_Witness ==
    /\ ~ui.isReorderMode
    /\ now >= 1
    /\ [k \in 1..Len(state.settingsBlocks) |-> state.settingsBlocks[k].id]
          = <<"habits", "traits", "emotions">>

(***************************************************************************)
(* Settings home: adding and deleting blocks                               *)
(***************************************************************************)
\* the menu button of a block card
openBlockMenu(blockId) ==
    /\ settingsHome /\ ~ui.isReorderMode
    /\ hasBlock(state, blockId)
    /\ SetUi([ui EXCEPT !.activeMenuBlockId = blockId])

\* the menu modal is shown while its block exists
menuShown == mainRendered /\ ui.activeMenuBlockId # "" /\ hasBlock(state, ui.activeMenuBlockId)

closeBlockMenu == menuShown /\ SetUi([ui EXCEPT !.activeMenuBlockId = ""])

\* the delete entry of the menu
menuDelete == menuShown /\ deleteBlock(ui.activeMenuBlockId)

\* the back button of a block's screen
backToSettingsHome ==
    /\ mainRendered /\ ~ui.isTaskModalVisible
    /\ ui.activeTab = "settings" /\ ui.settingsSection # ""
    /\ SetUi([ui EXCEPT !.settingsSection = ""])

\* the "+" card
openAddModal ==
    /\ settingsHome /\ ~ui.isReorderMode
    /\ SetUi([ui EXCEPT !.isAddModalVisible = TRUE])

closeAddModal == mainRendered /\ ui.isAddModalVisible /\ SetUi([ui EXCEPT !.isAddModalVisible = FALSE])

\* the templates, in the notation of defaultState.settingsBlocks
BASE_SETTINGS_BLOCKS ==
    <<[kind |-> "traits", title |-> "traits", color |-> "#eef4ff"],
      [kind |-> "emotions", title |-> "emotions", color |-> "#eefaf5"],
      [kind |-> "habits", title |-> "habits", color |-> "#fff8eb"],
      [kind |-> "values", title |-> "values", color |-> "#f5f0ff"]>>

missingTemplateBlocks ==
    SelectSeq(BASE_SETTINGS_BLOCKS,
              LAMBDA template : ~\E k \in 1..Len(state.settingsBlocks) :
                                    state.settingsBlocks[k].kind = template.kind)

\* prev.sectionNotes[key] ?? ''
noteOr(st, key) == IF key \in DOMAIN st.sectionNotes THEN st.sectionNotes[key] ELSE ""

\* a template entry of the add modal, listed while the template is missing
addTemplateBlock(kind) ==
    /\ mainRendered /\ ui.isAddModalVisible
    /\ \E k \in 1..Len(missingTemplateBlocks) : missingTemplateBlocks[k].kind = kind
    /\ LET template == CHOOSE t \in {BASE_SETTINGS_BLOCKS[k] : k \in 1..Len(BASE_SETTINGS_BLOCKS)} :
                          t.kind = kind
       IN Update(spread(state,
                        [settingsBlocks |->
                            Append(state.settingsBlocks,
                                   [id |-> template.kind, kind |-> template.kind,
                                    title |-> template.title, color |-> template.color]),
                         sectionNotes |-> spread(state.sectionNotes,
                                                 [b \in {template.kind} |-> noteOr(state, template.kind)])]),
                 {"settingsBlocks", "sectionNotes"},
                 [ui EXCEPT !.isAddModalVisible = FALSE])

\* the "new block" entry of the add modal
openNewBlockModal ==
    /\ mainRendered /\ ui.isAddModalVisible
    /\ SetUi([ui EXCEPT !.isAddModalVisible = FALSE, !.newBlockName = "",
                        !.isNewBlockModalVisible = TRUE])

setNewBlockName(text) ==
    /\ mainRendered /\ ui.isNewBlockModalVisible
    /\ SetUi([ui EXCEPT !.newBlockName = text])

CUSTOM_BLOCK_COLORS == <<"#f0f6ff", "#fff6ef", "#effaf2", "#fff0f6", "#f7f3ff">>

\* `custom-${t}` for the times of a run
customId(t) == <<"custom-0", "custom-1", "custom-2", "custom-3", "custom-4", "custom-5">>[t + 1]

\* the confirm button of the new block modal
addCustomBlock ==
    /\ mainRendered /\ ui.isNewBlockModalVisible
    /\ LET title == trim(ui.newBlockName)
           customCount == Len(SelectSeq(state.settingsBlocks, LAMBDA block : block.kind = "custom"))
           color == CUSTOM_BLOCK_COLORS[(customCount % Len(CUSTOM_BLOCK_COLORS)) + 1]
           id == customId(now)
       IN IF title = "" THEN UNCHANGED vars
          ELSE Update(spread(state,
                             [settingsBlocks |->
                                 Append(state.settingsBlocks,
                                        [id |-> id, kind |-> "custom", title |-> title, color |-> color]),
                              sectionNotes |-> spread(state.sectionNotes, [b \in {id} |-> ""])]),
                      {"settingsBlocks", "sectionNotes"},
                      [ui EXCEPT !.newBlockName = "", !.isNewBlockModalVisible = FALSE])


(***************************************************************************)
(* Onboarding                                                              *)
(***************************************************************************)
\* the onboarding screen is rendered
onboardingRendered == loaded /\ ~state.profile.onboardingCompleted

\* the name input of step 1
setProfileName(name) ==
    /\ onboardingRendered
    /\ ui.onboardingStep = 1
    /\ Commit([state EXCEPT !.profile.name = name], {"profile"})

\* the back button, disabled at step 1
onboardingBack ==
    /\ onboardingRendered
    /\ ui.onboardingStep # 1
    /\ SetUi([ui EXCEPT !.onboardingStep = Max(1, @ - 1)])

\* the next button, shown before step 3
onboardingNext ==
    /\ onboardingRendered
    /\ ui.onboardingStep < 3
    /\ SetUi([ui EXCEPT !.onboardingStep = Min(3, @ + 1)])

\* a goal chip of step 2
onboardingToggleGoal(category) ==
    /\ onboardingRendered
    /\ ui.onboardingStep = 2
    /\ toggleGoal(category)

\* finishOnboarding without the test of the goals
finishOnboarding_nameOnly ==
    /\ onboardingRendered
    /\ ~(ui.onboardingStep < 3)
    /\ IF trim(state.profile.name) = "" THEN UNCHANGED vars
       ELSE Update([state EXCEPT !.profile.onboardingCompleted = TRUE], {"profile"},
                   [ui EXCEPT !.activeTab = "settings"])

\* the finish button, shown at step 3; an alert changes nothing
finishOnboarding ==
    /\ onboardingRendered
    /\ ~(ui.onboardingStep < 3)
    /\ IF trim(state.profile.name) = "" THEN UNCHANGED vars
       ELSE IF Len(state.goals) = 0 THEN UNCHANGED vars
       ELSE Update([state EXCEPT !.profile.onboardingCompleted = TRUE], {"profile"},
                   [ui EXCEPT !.activeTab = "settings"])

\* nothing stored, a name stored, onboarding completed in an earlier run
OnboardingInit ==
    Installed({[kind |-> "null"],
               JSONstringify([profile |-> [name |-> " ok "]]),
               JSONstringify([profile |-> onboarded])})

OnboardingNext ==
    \/ Startup
    \/ now < MaxEdits /\ \E name \in {" ", "Al"} : setProfileName(name)
    \/ onboardingBack
    \/ onboardingNext
    \/ now < MaxEdits /\ onboardingToggleGoal("calmness")
    \/ finishOnboarding
    \/ \E tab \in {"profile", "premium", "settings"} : selectMenuItem(tab)
    \/ now < MaxToggles /\ onTogglePremium
    \/ openBlockMenu("emotions")
    \/ now < MaxToggles /\ menuDelete

OnboardingSpec == OnboardingInit /\ [][OnboardingNext]_vars

\* C27: the onboarding step stays in 1..3; while the app runs, a step that
\* makes onboardingCompleted true is finishOnboarding taken with a non-empty
\* trimmed name and at least one goal; finishOnboarding without them leaves the
\* state unchanged; and no step of the running app makes onboardingCompleted
\* false again.
C27_OnboardingGate ==
    /\ [](ui.onboardingStep \in 1..3)
    /\ [][/\ loaded /\ ~state.profile.onboardingCompleted /\ state'.profile.onboardingCompleted =>
               /\ finishOnboarding
               /\ trim(state.profile.name) # ""
               /\ Len(state.goals) >= 1
          /\ finishOnboarding /\ (trim(state.profile.name) = "" \/ Len(state.goals) = 0) =>
               state' = state
          /\ loaded /\ state.profile.onboardingCompleted => state'.profile.onboardingCompleted]_vars

\* C27 witness: onboarding finished in this run, and the app used afterwards
C27_Witness ==
    /\ storage # JSONstringify([profile |-> onboarded])
    /\ state.profile.onboardingCompleted
    /\ trim(state.profile.name) # ""
    /\ Len(state.goals) >= 1
    /\ ui.onboardingStep = 3
    /\ state.profile.isPremium

(***************************************************************************)
(* Blocks and their tasks                                                  *)
(***************************************************************************)
closeNewBlockModal ==
    /\ mainRendered /\ ui.isNewBlockModalVisible
    /\ SetUi([ui EXCEPT !.isNewBlockModalVisible = FALSE])

\* a task an earlier run has stored
storedTask ==
    [id |-> <<"task", 0>>, title |-> "ok", description |-> "ok", motivation |-> "ok",
     motivationImageUri |-> "", reminders |-> createTaskDraft.reminders]

\* a fresh state after onboarding, and one with a task in the habits block
BlocksInit ==
    Installed({JSONstringify([profile |-> onboarded]),
               JSONstringify([profile |-> onboarded,
                              sectionTasks |-> [habits |-> <<storedTask>>]])})

BlocksNext ==
    \/ Startup
    \/ \E blockId \in {"emotions", "habits"} : openBlockMenu(blockId)
    \/ closeBlockMenu
    \/ now < MaxEdits /\ menuDelete
    \/ openAddModal
    \/ closeAddModal
    \/ now < MaxEdits /\ \E kind \in {"emotions", "habits"} : addTemplateBlock(kind)
    \/ openNewBlockModal
    \/ closeNewBlockModal
    \/ \E text \in {" ", " ok "} : setNewBlockName(text)
    \/ (trim(ui.newBlockName) # "" => now < MaxEdits) /\ addCustomBlock
    \/ \E blockId \in {"habits", "values"} : openBlock(blockId)
    \/ backToSettingsHome
    \/ openTaskWizard
    \/ closeTaskWizard
    \/ setTaskTitle(" ok ")
    \/ setTaskDescription(" ok ")
    \/ setTaskMotivation("ok")
    \/ (ui.taskWizardStep = 4 => now < MaxEdits) /\ nextTaskWizardStep

BlocksSpec == BlocksInit /\ [][BlocksNext]_vars

\* the notes of a state, by block id
noteIds(st) == DOMAIN st.sectionNotes

\* every key of sectionTasks is the id of a block of settingsBlocks
taskKeysAreBlocks(st) == \A key \in blockIds(st) : hasBlock(st, key)

\* what deleteBlock(b) does to prev to give next
deleteBlockEffect(prev, next, b) ==
    /\ next.settingsBlocks = SelectSeq(prev.settingsBlocks, LAMBDA block : block.id # b)
    /\ noteIds(next) = noteIds(prev) \ {b}
    /\ \A key \in noteIds(next) : next.sectionNotes[key] = prev.sectionNotes[key]
    /\ blockIds(next) = blockIds(prev) \ {b}
    /\ \A key \in blockIds(next) : blockTasks(next, key) = blockTasks(prev, key)
    /\ DOMAIN next \ {"sectionTasks"} = DOMAIN prev \ {"sectionTasks"}
    /\ \A field \in DOMAIN prev \ {"settingsBlocks", "sectionNotes", "sectionTasks"} :
          next[field] = prev[field]

\* C28: deleteBlock(b) removes block b, its note and its tasks and leaves the
\* other blocks, their notes and tasks and every other field as they were;
\* from a state where every sectionTasks key is the id of a block, block
\* additions, block deletions and task creations keep it so.
C28_DeleteBlockFrame ==
    /\ [](taskKeysAreBlocks(state))
    /\ [][menuDelete => deleteBlockEffect(state, state', ui.activeMenuBlockId)]_vars

\* C28 witness: the habits block was deleted with its stored task, and the
\* other blocks are still there
C28_Witness ==
    /\ now >= 1
    /\ "sectionTasks" \in DOMAIN storage.value
    /\ ~hasBlock(state, "habits")
    /\ "habits" \notin blockIds(state)
    /\ hasBlock(state, "values")

(***************************************************************************)
(* The task draft's random window                                          *)
(***************************************************************************)
DraftInit ==
    Installed({JSONstringify([profile |-> onboarded, sectionTasks |-> EmptyObject])})

\* one of the six counter buttons of the random section is pressed
windowButton ==
    \/ \E delta \in {-1, 1} : windowStartButton(delta) \/ windowEndButton(delta)
    \/ timesInWindowMinus
    \/ timesInWindowPlus

\* the wizard up to its last step; the draft is not saved in these runs
DraftNext ==
    \/ Startup
    \/ openBlock("habits")
    \/ openTaskWizard
    \/ closeTaskWizard
    \/ setTaskTitle(" ok ")
    \/ setTaskDescription(" ok ")
    \/ setTaskMotivation("ok")
    \/ ui.taskWizardStep < 4 /\ nextTaskWizardStep
    \/ prevTaskWizardStep
    \/ \E enabled \in BOOLEAN \ {ui.taskDraft.reminders.enabled} : setTaskRemindersEnabled(enabled)
    \/ \E mode \in {"fixed", "random"} : switchReminderMode(mode)
    \/ windowButton

DraftSpec == DraftInit /\ [][DraftNext]_vars

\* the random settings of a draft are in range
draftWindowInRange(draft) ==
    LET config == draft.reminders.config
    IN config.mode = "random" =>
          /\ 0 <= config.startHour
          /\ config.startHour < config.endHour
          /\ config.endHour <= LastHour
          /\ config.timesInWindow \in 1..MaxTimesInWindow

\* C29: a draft in random mode has 0 <= startHour < endHour <= 23 and
\* timesInWindow in 1..12 whatever window and counter buttons were pressed
\* since the default window 9-21; a button pressed on a draft in fixed mode
\* leaves the draft as it was.
C29_DraftWindowInvariant ==
    /\ [](draftWindowInRange(ui.taskDraft))
    /\ [][windowButton /\ ui.taskDraft.reminders.config.mode = "fixed" =>
             ui'.taskDraft = ui.taskDraft]_vars

\* C29 witness: the window pushed from 9-21 to its ends, the counter to its top
C29_Witness ==
    /\ ui.isTaskModalVisible
    /\ ui.taskDraft.reminders.config.mode = "random"
    /\ ui.taskDraft.reminders.config.startHour = 22
    /\ ui.taskDraft.reminders.config.endHour = LastHour
    /\ ui.taskDraft.reminders.config.timesInWindow = MaxTimesInWindow

(***************************************************************************)
(* The task draft's fixed times                                            *)
(***************************************************************************)
TimesInit ==
    Installed({JSONstringify([profile |-> onboarded, sectionTasks |-> EmptyObject])})

\* the texts typed into the time input: times with one and two hour digits,
\* with blanks around, at the ends of the day, and texts that are no times
TimeTexts ==
    {<<"9", ":", "3", "0">>,
     <<"0", "9", ":", "3", "0">>,
     <<" ", "7", ":", "0", "5", " ">>,
     <<"2", "3", ":", "5", "9">>,
     <<"2", "4", ":", "0", "0">>,
     <<"9", ":", "6", "0">>,
     <<"9", "3", "0">>,
     <<"a", ":", "3", "0">>,
     <<"9", ":", "3">>}

TimesNext ==
    \/ Startup
    \/ openBlock("habits")
    \/ openTaskWizard
    \/ closeTaskWizard
    \/ setTaskTitle(" ok ")
    \/ setTaskDescription(" ok ")
    \/ setTaskMotivation("ok")
    \/ ui.taskWizardStep < 4 /\ nextTaskWizardStep
    \/ \E enabled \in BOOLEAN \ {ui.taskDraft.reminders.enabled} : setTaskRemindersEnabled(enabled)
    \/ \E mode \in {"fixed", "random"} : switchReminderMode(mode)
    \/ \E text \in TimeTexts : setFixedTimeInput(text)
    \/ addFixedTime
    \/ \E text \in TimeTexts : removeFixedTime(normalizeTimeValue(text))

TimesSpec == TimesInit /\ [][TimesNext]_vars

\* the text of hour h and minute m, with one or two hour digits
timeText(h, m, hourDigits) ==
    (IF hourDigits = 1 THEN <<Digits[h + 1]>> ELSE pad2(h)) \o <<":">> \o pad2(m)

\* text is HH:MM with the hour in 0..23 and the minute in 0..59
isNormalizedTime(text) ==
    \E h \in 0..LastHour, m \in 0..LastMinute : text = timeText(h, m, 2)

\* text, blanks around it aside, is H:MM or HH:MM of a time of the day
isValidTimeInput(text) ==
    \E h \in 0..LastHour, m \in 0..LastMinute :
        \/ trimText(text) = timeText(h, m, 2)
        \/ h <= 9 /\ trimText(text) = timeText(h, m, 1)

\* the time a valid input stands for
timeOfInput(text) ==
    LET t == trimText(text)
        hm == CHOOSE p \in (0..LastHour) \X (0..LastMinute) :
                  \/ t = timeText(p[1], p[2], 2)
                  \/ p[1] <= 9 /\ t = timeText(p[1], p[2], 1)
    IN timeText(hm[1], hm[2], 2)

\* normalized times, each once, in ascending order
sortedTimeSet(times) ==
    /\ \A k \in 1..Len(times) : isNormalizedTime(times[k])
    /\ \A k \in 1..(Len(times) - 1) : textBefore(times[k], times[k + 1])

fixedTimes == ui.taskDraft.reminders.config.times

\* C30: the times of a fixed-mode draft are normalized HH:MM texts (hour
\* 0..23, minute 0..59) without duplicates in ascending order after any
\* addFixedTime and removeFixedTime; addFixedTime with an input that is no
\* valid time, or whose time is in the list already, leaves the list unchanged,
\* and with any other input adds its time.
C30_FixedTimesSortedSet ==
    /\ [](ui.taskDraft.reminders.config.mode = "fixed" => sortedTimeSet(fixedTimes))
    /\ [][addFixedTime /\ ui.taskDraft.reminders.config.mode = "fixed" =>
             IF ~isValidTimeInput(ui.fixedTimeInput)
             THEN ui'.taskDraft = ui.taskDraft
             ELSE IF includes(fixedTimes, timeOfInput(ui.fixedTimeInput))
             THEN ui'.taskDraft = ui.taskDraft
             ELSE {fixedTimes'[k] : k \in 1..Len(fixedTimes')}
                     = {fixedTimes[k] : k \in 1..Len(fixedTimes)} \cup {timeOfInput(ui.fixedTimeInput)}]_vars

\* C30 witness: three times typed out of order and in different forms, and
\* the input holding a second form of a time of the list
C30_Witness ==
    /\ ui.taskDraft.reminders.config.mode = "fixed"
    /\ fixedTimes = <<<<"0", "7", ":", "0", "5">>, <<"0", "9", ":", "3", "0">>,
                      <<"2", "3", ":", "5", "9">>>>
    /\ ui.fixedTimeInput = <<"9", ":", "3", "0">>

=============================================================================
